---- MODULE Spec2Model ----
(***************************************************************************)
(* A model of CoFSM (include/CoFSM.h): the reusable Event container, the   *)
(* State coroutines, the FSM transition table and the dispatch driver      *)
(* (sendEvent, the awaitables' await_suspend / await_resume), with the     *)
(* call stack of each driving thread made explicit.                        *)
(***************************************************************************)
EXTENDS Integers, Sequences, FiniteSets, TLC

\* ------------------------------------------------------------------ universe

\* The FSM objects of the program.
FSMs == {"R", "G"}

\* The coroutine handles (one per state coroutine created by the program).
Handles == {"r1", "r2", "g1"}

\* The null coroutine handle (StateHandle _state = nullptr).
NullH == "null"

\* Number of states in the ring of the ring example (the example has 1023).
statesInRing == 3

\* ring.getStateAt(i), 0 <= i < statesInRing: the ring states are not named and are
\* referred to by their index.
getStateAt(i) == "ring" \o ToString(i)

RingStates == {getStateAt(i) : i \in 0 .. statesInRing - 1}

\* A second coroutine of machine R that is given the name of r1.
r1Again == "r1Again"

\* The FSM& each state coroutine was created with (the `self` of its awaitables).
fsmOf(h) ==
    CASE h \in {"r1", "r2", r1Again} -> "R"
      [] h \in {"pingState", "pongState"} -> "PingPongFSM"
      [] h \in {"ready"} \cup RingStates -> "RingFSM"
      [] h \in {"RedIdleState", "RedActiveState"} -> "RED-FSM"
      [] h \in {"GreenIdleState", "GreenActiveState"} -> "GREEN-FSM"
      [] h \in {"BlueIdleState", "BlueActiveState"} -> "BLUE-FSM"
      [] h \in {"transmitReady", "transmissionInProgress", "soundOn"} -> "Morse FSM"
      [] OTHER -> "G"

\* The event names the program uses.
Names == {"X", "Y"}

\* Largest int payload a caller or a state body puts into an event.
MaxPayload == 1

Payloads == 0 .. MaxPayload

\* The driving threads. Spec uses the first one only.
Threads == {"t1", "t2"}

\* No data buffer (_data == nullptr), or a buffer that holds no object: its bytes were
\* never written, or the object in it was destroyed. Payload values are 0 and above.
NoData == -1

\* ------------------------------------------------------------------ Event

\* Event() and a moved-from Event: empty name, no buffer, flag cleared.
EmptyEvent == [name |-> "", cap |-> 0, data |-> NoData, nt |-> FALSE]

\* sizeof(T) of the payload types in use.
SizeOf(T) ==
    CASE T \in {"int", "unsigned"} -> 4
      [] T = "token" -> 8
      [] T = "string_view" -> 16
      [] T = "string" -> 32
      [] OTHER -> 0

\* std::is_trivially_destructible_v<T>.
IsTrivial(T) == T \notin {"token", "string"}

isEmpty(e) == e.name = ""

\* Event::isEqual(other) and operator==(Event, string_view): the names compare equal.
isEqual(e, n) == e.name = n

\* Event::capacity()
capacity(e) == e.cap

\* An assertDestruct that never throws.
assertDestructNever(e) == FALSE

\* assertDestruct throws iff the flag is set.
assertDestructThrows(e) == e.nt

\* A reserve that fits the buffer to the requested size, also when that is smaller.
reserveExact(e, size) ==
    IF e.cap # size
    THEN [name |-> "", cap |-> size, data |-> NoData, nt |-> FALSE]
    ELSE e

\* reserve(size): a larger buffer replaces the old one and wipes the event.
reserve(e, size) ==
    IF e.cap < size
    THEN [name |-> "", cap |-> size, data |-> NoData, nt |-> FALSE]
    ELSE e

\* construct<T>(name, v) on an event that passes assertDestruct.
construct(e, n, T, v) ==
    IF T = "void"
    THEN [e EXCEPT !.name = n, !.nt = FALSE]
    ELSE [reserve(e, SizeOf(T)) EXCEPT !.data = v, !.name = n, !.nt = ~IsTrivial(T)]

\* A destroy that clears the flag and keeps the name.
destroyKeepsName(e) == [e EXCEPT !.nt = FALSE]

\* destroy() (void / trivially destructible form) on an event that passes assertDestruct.
destroy(e) == [e EXCEPT !.name = "", !.nt = FALSE]

\* destroy<T>() for a non-trivially destructible T: the destructor of the stored object
\* runs if there is a buffer and the flag is set; the name and the flag are cleared.
destroyTyped(e) ==
    [e EXCEPT !.data = IF e.cap > 0 /\ e.nt THEN NoData ELSE @, !.name = "", !.nt = FALSE]

\* destroy<T>()
destroyAs(e, T) == IF T = "void" \/ IsTrivial(T) THEN destroy(e) ELSE destroyTyped(e)

\* The calls that start with assertDestruct: construct, destroy<void or trivial T>,
\* clear, ~Event; reserve only when it has to grow the buffer.
constructThrows(e) == assertDestructThrows(e)
destroyThrows(e, T) == (T = "void" \/ IsTrivial(T)) /\ assertDestructThrows(e)
clearThrows(e) == assertDestructThrows(e)
reserveThrows(e, size) == e.cap < size /\ assertDestructThrows(e)

\* clear(): the buffer is released.
clear(e) == [name |-> "", cap |-> 0, data |-> NoData, nt |-> FALSE]

\* dataAs<T>() / operator>>: the buffer reinterpreted as the object written into it.
dataAs(e, T) == e.data

\* A move whose destination gets the name and the buffer without the payload.
MovedToWithoutPayload(src) == [src EXCEPT !.data = NoData]

\* What the destination of a move (construction or assignment) holds afterwards.
MovedTo(src) == src

\* A move that leaves its source as it was (a copy).
MovedFromKeepsSource(src) == src

\* What the source of a move holds afterwards (std::exchange of every field).
MovedFrom(src) == EmptyEvent

\* ------------------------------------------------------------------ state

VARIABLES
    _vecStates,          \* FSM -> sequence of registered handles
    _mapTransitionTable, \* FSM -> set of [from, ev, to, fsm]
    _state,              \* FSM -> current state handle or NullH
    _event,              \* FSM -> the in-flight Event
    _bIsActive,          \* FSM -> BOOLEAN
    logger,              \* FSM -> BOOLEAN: a trace callback is attached
    lastLog,             \* the arguments of the last trace callback of the chain
    pos,                 \* handle -> where the coroutine is suspended / running
    bIsStarted,          \* handle -> promise_type::bIsStarted
    bodyEvent,           \* handle -> the body's local `Event event`
    pc,                  \* thread -> position of the driving thread
    cur,                 \* thread -> the coroutine it resumes / runs / suspends
    tgt,                 \* thread -> the TransitionTarget `to` of await_suspend
    callerEv,            \* thread -> the caller's Event object
    result,              \* thread -> how its last API call ended
    driven,              \* thread -> the FSM its last sendEvent was called on
    lastDest,            \* thread -> the state its chain last left in driven's _state
    hop,                 \* thread -> the routing whose event is being delivered
    fault,               \* the process died: failed assert, terminate, UB
    build,               \* "unknown", or "ndebug" once a failed assert was compiled out
    stack,               \* thread -> the coroutines whose resume() is on its call stack
    measure,             \* thread -> what its send call was given and has routed so far
    roundsLeft,          \* readyState's local int roundsLeft
    direction,           \* readyState's local Direction direction
    numEventsProcessed,  \* main's counter the ringState bodies increment
    iBlinksLeft,         \* idle state -> its local int iBlinksLeft
    stopToken,           \* idle state -> its local std::stop_token (0: no stop state)
    jthread,             \* thread -> main's std::jthread object for it
    routedAtStop,        \* thread -> transitions its chain had routed when stop was requested
    speedWordsPerMinute, \* the argument of transmissionInProgressState
    dotTimeInMs,         \* transmissionInProgressState's local, NoData before it is set
    dashTimeInMs,        \* transmissionInProgressState's local, NoData before it is set
    symbol,              \* transmissionInProgressState's local: the signals of the symbol
    signalsTransmitted,  \* transmissionInProgressState's local
    message,             \* transmitReadyState's local: the characters of the message
    symbolsSent,         \* transmitReadyState's local
    sent                 \* main: the number of messages constructed so far

vars == << _vecStates, _mapTransitionTable, _state, _event, _bIsActive, logger,
           lastLog, pos, bIsStarted, bodyEvent, pc, cur, tgt, callerEv, result,
           driven, lastDest, hop, fault, build, stack, measure, roundsLeft, direction,
           numEventsProcessed, iBlinksLeft, stopToken, jthread, routedAtStop,
           speedWordsPerMinute, dotTimeInMs, dashTimeInMs, symbol, signalsTransmitted,
           message, symbolsSent, sent >>

fsmVars == << _vecStates, _mapTransitionTable, _state, _event, _bIsActive, logger >>
coroVars == << pos, bIsStarted, bodyEvent >>
chainVars == << cur, tgt, driven, lastDest, hop, lastLog, stack, measure >>
rgbVars == << iBlinksLeft, stopToken, jthread, routedAtStop >>
timingVars == << speedWordsPerMinute, dotTimeInMs, dashTimeInMs >>
textVars == << symbol, signalsTransmitted, message, symbolsSent, sent >>
morseVars == << timingVars, textVars >>
progVars == << roundsLeft, direction, numEventsProcessed, rgbVars, morseVars >>

\* A program without idle states, stop tokens and jthreads.
NoJThreads ==
    /\ iBlinksLeft = << >>
    /\ stopToken = << >>
    /\ jthread = << >>
    /\ routedAtStop = << >>

\* The Morse machine's states before they have received anything, and main before
\* its first message.
NoText ==
    /\ symbol = << >>
    /\ signalsTransmitted = 0
    /\ message = << >>
    /\ symbolsSent = 0
    /\ sent = 0

\* A program without the Morse machine.
NoMorse ==
    /\ speedWordsPerMinute = 0
    /\ dotTimeInMs = NoData
    /\ dashTimeInMs = NoData
    /\ NoText

NoTarget == [state |-> NullH, fsm |-> "none"]
NoLog == [fsm |-> "", from |-> "", ev |-> "", to |-> ""]
NoResult == [kind |-> "none"]
NoHop == [from |-> NullH, ev |-> EmptyEvent]

\* The machines of the example programs whose chains are measured: the payload and the
\* state a send call was given, and the number of transitions it has routed.
Measured == {"PingPongFSM", "RingFSM", "RED-FSM", "GREEN-FSM", "BLUE-FSM"}

NoMeasure == [name |-> "", sent |-> NoData, to |-> NullH, routed |-> 0]

\* readyState's locals as initialised: roundsLeft = 0, direction = Clockwise.
Clockwise == "Clockwise"
CounterClockwise == "CounterClockwise"

\* sendEvent returned normally: a state yielded an empty event ("emptyYield"), or the
\* resumed coroutine suspended at its co_await fsm.getEvent() ("firstAwait").
Returned(why) == [kind |-> "returned", why |-> why]

Registered(m) == {_vecStates[m][i] : i \in 1 .. Len(_vecStates[m])}

\* State::getName(): every state is named right after creation (setName); the name is
\* the handle's, except for the coroutine that was given the name of another one.
getName(h) == IF h = r1Again THEN "r1" ELSE h

\* FSM::name()
fsmName(m) == m

\* FSM::currentState(): the name of _state, or the shared empty string.
currentState(m) == IF _state[m] = NullH THEN "" ELSE getName(_state[m])

\* A lookup among all the states of the program, registered or not.
findHandleUnregistered(m, n) ==
    IF \E h \in Handles : getName(h) = n
    THEN CHOOSE h \in Handles : getName(h) = n
    ELSE NullH

\* A lookup that returns the first registered state whatever the name.
findHandleFirst(m, n) == IF Len(_vecStates[m]) > 0 THEN _vecStates[m][1] ELSE NullH

\* FSM::findHandle(name): the registered handle of that name, or nullptr.
findHandle(m, n) ==
    IF \E h \in Registered(m) : getName(h) = n
    THEN CHOOSE h \in Registered(m) : getName(h) = n
    ELSE NullH

\* FSM::hasState(name)
hasState(m, n) == \E h \in Registered(m) : getName(h) = n

Init ==
    /\ _vecStates = [m \in FSMs |-> IF m = "R" THEN << "r1" >> ELSE << "g1" >>]
    /\ _mapTransitionTable = [m \in FSMs |-> {}]
    /\ _state = [m \in FSMs |-> NullH]
    /\ _event = [m \in FSMs |-> EmptyEvent]
    /\ _bIsActive = [m \in FSMs |-> FALSE]
    /\ logger = [m \in FSMs |-> m = "R"]
    /\ lastLog = NoLog
    /\ pos = [h \in Handles |-> "initial"]
    /\ bIsStarted = [h \in Handles |-> FALSE]
    /\ bodyEvent = [h \in Handles |-> EmptyEvent]
    /\ pc = [t \in Threads |-> "idle"]
    /\ cur = [t \in Threads |-> NullH]
    /\ tgt = [t \in Threads |-> NoTarget]
    /\ callerEv = [t \in Threads |-> EmptyEvent]
    /\ result = [t \in Threads |-> NoResult]
    /\ driven = [t \in Threads |-> "none"]
    /\ lastDest = [t \in Threads |-> NullH]
    /\ hop = [t \in Threads |-> NoHop]
    /\ fault = "none"
    /\ build = "unknown"
    /\ stack = [t \in Threads |-> << >>]
    /\ measure = [t \in Threads |-> NoMeasure]
    /\ roundsLeft = 0
    /\ direction = Clockwise
    /\ numEventsProcessed = 0
    /\ NoJThreads
    /\ NoMorse

Idle(t) == pc[t] = "idle" /\ fault = "none"

\* ------------------------------------------------------------------ set-up API

Error(w, m, s, n) == [kind |-> "error", what |-> w, fsm |-> m, state |-> s, ev |-> n]

\* A push_back that puts the new state in front of the registered ones.
pushFront(v, h) == << h >> \o v

\* std::vector::push_back
push_back(v, h) == Append(v, h)

\* The std::size_t the API call `op` returned to its caller.
Index(op, i) == [kind |-> "index", op |-> op, index |-> i]

\* FSM::addState(State&&): the state object is moved into _vecStates and its index is
\* returned; a duplicate name throws and leaves the machine as it was (the caller
\* catches and goes on).
addState(t, m, h) ==
    /\ Idle(t)
    /\ fsmOf(h) = m
    /\ \A k \in DOMAIN _vecStates : h \notin Registered(k)
    /\ IF hasState(m, getName(h))
       THEN /\ result' = [result EXCEPT ![t] = Error("duplicateState", fsmName(m), getName(h), "")]
            /\ UNCHANGED _vecStates
       ELSE /\ _vecStates' = [_vecStates EXCEPT ![m] = push_back(@, h)]
            /\ result' = [result EXCEPT ![t] = Index("addState", Len(_vecStates'[m]) - 1)]
    /\ pc' = [pc EXCEPT ![t] = "done"]
    /\ UNCHANGED << _mapTransitionTable, _state, _event, _bIsActive, logger, coroVars,
                    callerEv, chainVars, fault, build >>
    /\ UNCHANGED progVars

\* The transitions the callers register: r1 to r2 inside R, the hand-over R -> G
\* and back, and the re-configuration of R's hand-over to R itself. No transition
\* is ever registered for event "Y".
TransitionMenu ==
    { [owner |-> "R", from |-> "r1", ev |-> "X", to |-> "r2", fsm |-> "R"],
      [owner |-> "R", from |-> "r2", ev |-> "X", to |-> "g1", fsm |-> "G"],
      [owner |-> "R", from |-> "r2", ev |-> "X", to |-> "r2", fsm |-> "R"],
      [owner |-> "G", from |-> "g1", ev |-> "X", to |-> "r1", fsm |-> "R"] }

\* _mapTransitionTable.find({from, name}): the entries of that key (at most one).
find(m, h, n) == {e \in _mapTransitionTable[m] : e.from = h /\ e.ev = n}

\* A lookup keyed by the yielding state alone, whatever the event's name.
targetOfAnyEvent(m, h, n) ==
    IF {e \in _mapTransitionTable[m] : e.from = h} = {}
    THEN NoTarget
    ELSE LET e == CHOOSE x \in {y \in _mapTransitionTable[m] : y.from = h} : TRUE
         IN  [state |-> e.to, fsm |-> e.fsm]

\* The TransitionTarget found for {fromState, onEvent.name()}, or NoTarget.
targetOf(m, h, n) ==
    IF find(m, h, n) = {}
    THEN NoTarget
    ELSE LET e == CHOOSE x \in find(m, h, n) : TRUE
         IN  [state |-> e.to, fsm |-> e.fsm]

\* An insertion that keeps the entry a key already has (unordered_map::insert).
insertKeepsOld(tab, h, n, to, f) ==
    IF \E e \in tab : e.from = h /\ e.ev = n
    THEN tab
    ELSE tab \cup {[from |-> h, ev |-> n, to |-> to, fsm |-> f]}

\* unordered_map::insert_or_assign: the entry of the key is replaced.
insert_or_assign(tab, h, n, to, f) ==
    {e \in tab : ~(e.from = h /\ e.ev = n)} \cup {[from |-> h, ev |-> n, to |-> to, fsm |-> f]}

\* An erase that removes nothing.
eraseNothing(tab, h, n) == tab

\* unordered_map::erase(key)
erase(tab, h, n) == {e \in tab : ~(e.from = h /\ e.ev = n)}

\* The bool the API call `op` returned to its caller.
Value(op, b) == [kind |-> "value", op |-> op, value |-> b]

\* FSM::hasTransition(fromState, onEvent)
hasTransition(m, h, n) == find(m, h, n) # {}

\* FSM::targetState(fromState, onEvent): the name of the target state, or the shared
\* empty string.
targetState(m, h, n) ==
    IF find(m, h, n) = {} THEN "" ELSE getName(targetOf(m, h, n).state)

\* FSM::addTransition(SV fromState, SV onEvent, SV toState, FSM* targetFSM): an unknown
\* source or target state name throws and leaves the table as it was; otherwise the
\* handle overload's insert_or_assign(...).second is returned.
addTransition(t, tr) ==
    /\ Idle(t)
    /\ LET m == tr.owner
           fromHandle == findHandle(m, tr.from)
           toHandle == findHandle(tr.fsm, tr.to)
       IN  IF fromHandle = NullH
           THEN /\ result' = [result EXCEPT ![t] = Error("unknownSource", fsmName(m), tr.from, tr.ev)]
                /\ UNCHANGED _mapTransitionTable
           ELSE IF toHandle = NullH
           THEN /\ result' = [result EXCEPT ![t] = Error("unknownTarget", fsmName(m), tr.to, tr.ev)]
                /\ UNCHANGED _mapTransitionTable
           ELSE /\ result' = [result EXCEPT ![t] = Value("addTransition", ~hasTransition(m, fromHandle, tr.ev))]
                /\ _mapTransitionTable' = [_mapTransitionTable EXCEPT ![m] =
                        insert_or_assign(@, fromHandle, tr.ev, toHandle, tr.fsm)]
    /\ pc' = [pc EXCEPT ![t] = "done"]
    /\ UNCHANGED << _vecStates, _state, _event, _bIsActive, logger, coroVars,
                    callerEv, chainVars, fault, build >>
    /\ UNCHANGED progVars

\* FSM::removeTransition(SV fromState, SV onEvent): returns bool(erased).
removeTransition(t, m, h, n) ==
    /\ Idle(t)
    /\ fsmOf(h) = m
    /\ _mapTransitionTable' = [_mapTransitionTable EXCEPT ![m] = erase(@, findHandle(m, getName(h)), n)]
    /\ result' = [result EXCEPT ![t] = Value("removeTransition", hasTransition(m, findHandle(m, getName(h)), n))]
    /\ pc' = [pc EXCEPT ![t] = "done"]
    /\ UNCHANGED << _vecStates, _state, _event, _bIsActive, logger, coroVars,
                    callerEv, chainVars, fault, build >>
    /\ UNCHANGED progVars

\* A resumption from initial_suspend that leaves the coroutine where it was.
startedPosStays(p) == p

\* Resuming a coroutine suspended at initial_suspend: State::promise_type::
\* InitialAwaitable::await_resume sets bIsStarted, the body runs to its
\* co_await fsm.getEvent() and suspends there, returning to the resumer.
startedPos(p) == IF p = "initial" THEN "awaitFirst" ELSE p

\* FSM::start(): resume every registered state that is not started.
start(t, m) ==
    /\ Idle(t)
    /\ pos' = [h \in DOMAIN pos |->
                 IF h \in Registered(m) /\ ~bIsStarted[h] THEN startedPos(pos[h]) ELSE pos[h]]
    /\ bIsStarted' = [h \in DOMAIN bIsStarted |-> bIsStarted[h] \/ h \in Registered(m)]
    /\ UNCHANGED << fsmVars, bodyEvent, pc, callerEv, result, chainVars, fault, build >>
    /\ UNCHANGED progVars

\* FSM::setState(SV stateName): _state is assigned before the null check, whose
\* exception the caller catches.
setState(t, m, n) ==
    /\ Idle(t)
    /\ _state' = [_state EXCEPT ![m] = findHandle(m, n)]
    /\ IF findHandle(m, n) = NullH
       THEN /\ result' = [result EXCEPT ![t] = Error("unknownState", fsmName(m), n, "")]
            /\ pc' = [pc EXCEPT ![t] = "done"]
       ELSE UNCHANGED << pc, result >>
    /\ UNCHANGED << _vecStates, _mapTransitionTable, _event, _bIsActive, logger, coroVars,
                    callerEv, chainVars, fault, build >>
    /\ UNCHANGED progVars

\* The caller builds its event: e.construct(name, int).
callerConstruct(t, n, v) ==
    /\ Idle(t)
    /\ callerEv' = [callerEv EXCEPT ![t] = construct(@, n, "int", v)]
    /\ pc' = [pc EXCEPT ![t] = "ready"]
    /\ UNCHANGED << fsmVars, coroVars, result, chainVars, fault, build >>
    /\ UNCHANGED progVars

\* ------------------------------------------------------------------ Event API

\* The payload types a caller constructs: none, a trivially destructible one and one
\* with a destructor.
Types == {"void", "int", "token"}

\* The names passed to construct; nothing forbids the empty one.
EventNames == Names \cup {""}

\* The sizes passed to reserve.
Sizes == {SizeOf(T) : T \in Types \ {"void"}}

\* An Event call that returned.
Done(op) == [kind |-> "event", op |-> op]

\* The runtime_error of assertDestruct, naming the event.
NeedsDestroy(e) == Error("needsDestroy", "", "", e.name)

\* e.construct<T>(name, v) on the caller's event.
evConstruct(t, n, T, v) ==
    /\ Idle(t)
    /\ IF constructThrows(callerEv[t])
       THEN /\ result' = [result EXCEPT ![t] = NeedsDestroy(callerEv[t])]
            /\ UNCHANGED callerEv
       ELSE /\ callerEv' = [callerEv EXCEPT ![t] = construct(@, n, T, v)]
            /\ result' = [result EXCEPT ![t] = Done("construct")]
    /\ UNCHANGED << fsmVars, coroVars, pc, chainVars, fault, build >>
    /\ UNCHANGED progVars

\* e.destroy<T>() on the caller's event.
evDestroy(t, T) ==
    /\ Idle(t)
    /\ IF destroyThrows(callerEv[t], T)
       THEN /\ result' = [result EXCEPT ![t] = NeedsDestroy(callerEv[t])]
            /\ UNCHANGED callerEv
       ELSE /\ callerEv' = [callerEv EXCEPT ![t] = destroyAs(@, T)]
            /\ result' = [result EXCEPT ![t] = Done("destroy")]
    /\ UNCHANGED << fsmVars, coroVars, pc, chainVars, fault, build >>
    /\ UNCHANGED progVars

\* e.clear() on the caller's event.
evClear(t) ==
    /\ Idle(t)
    /\ IF clearThrows(callerEv[t])
       THEN /\ result' = [result EXCEPT ![t] = NeedsDestroy(callerEv[t])]
            /\ UNCHANGED callerEv
       ELSE /\ callerEv' = [callerEv EXCEPT ![t] = clear(@)]
            /\ result' = [result EXCEPT ![t] = Done("clear")]
    /\ UNCHANGED << fsmVars, coroVars, pc, chainVars, fault, build >>
    /\ UNCHANGED progVars

\* e.reserve(size) on the caller's event.
evReserve(t, size) ==
    /\ Idle(t)
    /\ IF reserveThrows(callerEv[t], size)
       THEN /\ result' = [result EXCEPT ![t] = NeedsDestroy(callerEv[t])]
            /\ UNCHANGED callerEv
       ELSE /\ callerEv' = [callerEv EXCEPT ![t] = reserve(@, size)]
            /\ result' = [result EXCEPT ![t] = Done("reserve")]
    /\ UNCHANGED << fsmVars, coroVars, pc, chainVars, fault, build >>
    /\ UNCHANGED progVars

\* The caller's event goes out of scope and a new Event takes its place: ~Event is
\* noexcept, so the exception of assertDestruct ends the process.
evRelease(t) ==
    /\ Idle(t)
    /\ IF assertDestructThrows(callerEv[t])
       THEN /\ fault' = "terminate"
            /\ UNCHANGED << callerEv, result >>
       ELSE /\ callerEv' = [callerEv EXCEPT ![t] = EmptyEvent]
            /\ result' = [result EXCEPT ![t] = Done("release")]
            /\ UNCHANGED fault
    /\ UNCHANGED << fsmVars, coroVars, pc, chainVars, build >>
    /\ UNCHANGED progVars

\* Thread t moves Event a into Event b: b is move-constructed (in the place of an
\* event that was released) or move-assigned from a. Move assignment does nothing on
\* itself and clears the destination first, which ends the process (noexcept) when
\* that holds a live payload with a destructor.
evMove(t, a, b, how) ==
    /\ Idle(t)
    /\ how = "construct" => (b # a /\ callerEv[b] = EmptyEvent)
    /\ IF b = a
       THEN /\ result' = [result EXCEPT ![t] = Done("move")]
            /\ UNCHANGED << callerEv, fault >>
       ELSE IF how = "assign" /\ clearThrows(callerEv[b])
       THEN /\ fault' = "terminate"
            /\ UNCHANGED << callerEv, result >>
       ELSE /\ callerEv' = [callerEv EXCEPT ![b] = MovedTo(callerEv[a]),
                                             ![a] = MovedFrom(callerEv[a])]
            /\ result' = [result EXCEPT ![t] = Done("move")]
            /\ UNCHANGED fault
    /\ UNCHANGED << fsmVars, coroVars, pc, chainVars, build >>
    /\ UNCHANGED progVars

\* Move construction and move assignment.
Moves == {"construct", "assign"}

\* What a caller does with its event and with a second one it moves to and from.
EventStep(t) ==
    \/ \E n \in EventNames, T \in Types, v \in Payloads : evConstruct(t, n, T, v)
    \/ \E T \in Types : evDestroy(t, T)
    \/ evClear(t)
    \/ \E size \in Sizes : evReserve(t, size)
    \/ evRelease(t)
    \/ \E a, b \in Threads, how \in Moves : evMove(t, a, b, how)

\* ------------------------------------------------------------------ dispatch

\* A sendEvent without the started check.
stateIsStartedUnchecked(m) == TRUE

\* sendEvent's guard: _state.promise().bIsStarted.
stateIsStarted(m) == bIsStarted[_state[m]]

\* Control returns to the caller of sendEvent (normally or by an exception): the
\* thread is back in the caller, right after the call.
BackToCaller(t, r) ==
    /\ pc' = [pc EXCEPT ![t] = "done"]
    /\ cur' = [cur EXCEPT ![t] = NullH]
    /\ tgt' = [tgt EXCEPT ![t] = NoTarget]
    /\ result' = [result EXCEPT ![t] = r]
    /\ hop' = [hop EXCEPT ![t] = NoHop]
    /\ stack' = [stack EXCEPT ![t] = << >>]
    /\ UNCHANGED measure

\* The errors an API call raises before it has changed anything.
Refusals == {"notStarted", "unknownSource", "unknownTarget", "duplicateState", "unknownState"}

\* The caller goes on after an API call returned, or after it refused to act (the
\* caller catches that exception). An exception that left a state coroutine is fatal:
\* that coroutine is finished and the caller drives the machines no further.
callerContinue(t) ==
    /\ pc[t] = "done"
    /\ fault = "none"
    /\ result[t].kind = "error" => result[t].what \in Refusals
    /\ pc' = [pc EXCEPT ![t] = "idle"]
    /\ result' = [result EXCEPT ![t] = NoResult]
    /\ driven' = [driven EXCEPT ![t] = "none"]
    /\ lastDest' = [lastDest EXCEPT ![t] = NullH]
    /\ lastLog' = NoLog
    /\ measure' = [measure EXCEPT ![t] = NoMeasure]
    /\ UNCHANGED << fsmVars, coroVars, cur, tgt, hop, stack, callerEv, fault, build >>
    /\ UNCHANGED progVars

\* What is recorded of a send call on machine m with event e.
given(m, e) ==
    IF m \in Measured
    THEN [name |-> e.name, sent |-> e.data, to |-> _state[m], routed |-> 0]
    ELSE NoMeasure

\* What is recorded when machine m routes a transition.
routed(m, c) == IF m \in Measured THEN [c EXCEPT !.routed = @ + 1] ELSE c

\* A resumption from await_suspend that is an ordinary call: the yielding coroutine's
\* resume() stays on the stack below the destination's.
nestedResume(s, h) == Append(s, h)

\* Symmetric transfer: await_suspend returns the destination's handle and the
\* destination is resumed in the place of the yielding coroutine.
symmetricTransfer(s, h) == [s EXCEPT ![Len(s)] = h]

\* A send that looks the sent event up in the transition table and resumes the
\* state the table gives for it, when it gives one in this machine.
resumedByTable(m, e) ==
    IF targetOf(m, _state[m], e.name) = NoTarget \/ targetOf(m, _state[m], e.name).fsm # m
    THEN _state[m]
    ELSE targetOf(m, _state[m], e.name).state

\* A sendEvent whose move leaves the flag of the payload's destructor with the caller.
leftWithCallerFlag(e) == [EmptyEvent EXCEPT !.nt = e.nt]

\* What sendEvent leaves in *pEvent: _event = std::move(*pEvent).
leftWithCaller(e) == MovedFrom(e)

\* The coroutine sendEvent resumes for event e: _state.resume().
resumedBySend(m, e) == _state[m]

\* FSM::sendEvent(Event* pEvent): check, move the event in, resume _state.
\* A null _state is dereferenced (undefined behaviour); move assignment onto an
\* in-flight event with a live non-trivial payload throws inside noexcept.
sendEvent(t, m) ==
    /\ pc[t] \in {"idle", "ready"}
    /\ fault = "none"
    /\ IF _state[m] = NullH
       THEN /\ fault' = "ub"
            /\ UNCHANGED << fsmVars, coroVars, pc, callerEv, result, chainVars, build >>
       ELSE IF ~stateIsStarted(m)
       THEN /\ result' = [result EXCEPT ![t] =
                            Error("notStarted", fsmName(m), getName(_state[m]), callerEv[t].name)]
            /\ pc' = [pc EXCEPT ![t] = "done"]
            /\ UNCHANGED << fsmVars, coroVars, callerEv, chainVars, fault, build >>
       ELSE IF assertDestructThrows(_event[m])
       THEN /\ fault' = "terminate"
            /\ UNCHANGED << fsmVars, coroVars, pc, callerEv, result, chainVars, build >>
       ELSE /\ _event' = [_event EXCEPT ![m] = MovedTo(callerEv[t])]
            /\ callerEv' = [callerEv EXCEPT ![t] = leftWithCaller(callerEv[t])]
            /\ pc' = [pc EXCEPT ![t] = "resume"]
            /\ cur' = [cur EXCEPT ![t] = resumedBySend(m, callerEv[t])]
            /\ result' = [result EXCEPT ![t] = NoResult]
            /\ driven' = [driven EXCEPT ![t] = m]
            /\ lastDest' = [lastDest EXCEPT ![t] = _state[m]]
            /\ lastLog' = NoLog
            /\ stack' = [stack EXCEPT ![t] = Append(@, resumedBySend(m, callerEv[t]))]
            /\ measure' = [measure EXCEPT ![t] = given(m, callerEv[t])]
            /\ UNCHANGED << _vecStates, _mapTransitionTable, _state, _bIsActive, logger,
                            coroVars, tgt, hop, fault, build >>
    /\ UNCHANGED progVars

\* FSM::InitialAwaitable::await_resume sets _bIsActive; FSM::Awaitable::await_resume
\* does not.
activeOnResume(p, a) == IF p = "awaitFirst" THEN TRUE ELSE a

\* What await_resume hands to the body: the in-flight event, moved out.
await_resume(e) == MovedTo(e)

\* coroutine_handle::resume() of cur[t] (from sendEvent, or by symmetric transfer):
\*  - at initial_suspend: bIsStarted is set, the body runs to co_await fsm.getEvent(),
\*    whose await_suspend returns void, and control returns to the resumer;
\*  - at co_await getEvent() / emitAndReceive(): await_resume throws on an empty
\*    in-flight event (the coroutine ends in unhandled_exception) or takes it;
\*  - finished or running coroutine: undefined behaviour.
resume(t) ==
    /\ pc[t] = "resume"
    /\ fault = "none"
    /\ LET h == cur[t]
           self == fsmOf(h)
       IN  IF pos[h] = "initial"
           THEN /\ bIsStarted' = [bIsStarted EXCEPT ![h] = TRUE]
                /\ pos' = [pos EXCEPT ![h] = startedPos(pos[h])]
                /\ BackToCaller(t, Returned("firstAwait"))
                /\ UNCHANGED << fsmVars, bodyEvent, callerEv, driven, lastDest, lastLog, fault, build >>
           ELSE IF pos[h] \in {"awaitFirst", "awaitNext"}
           THEN /\ _bIsActive' = [_bIsActive EXCEPT ![self] = activeOnResume(pos[h], @)]
                /\ IF isEmpty(_event[self])
                   THEN /\ pos' = [pos EXCEPT ![h] = "final"]
                        /\ BackToCaller(t, Error("emptyEvent", fsmName(self), currentState(self), ""))
                        /\ UNCHANGED << _event, bodyEvent >>
                   ELSE /\ bodyEvent' = [bodyEvent EXCEPT ![h] = await_resume(_event[self])]
                        /\ _event' = [_event EXCEPT ![self] = MovedFrom(_event[self])]
                        /\ pos' = [pos EXCEPT ![h] = "running"]
                        /\ pc' = [pc EXCEPT ![t] = "body"]
                        /\ hop' = [hop EXCEPT ![t] = NoHop]
                        /\ UNCHANGED << cur, tgt, result, stack, measure >>
                /\ UNCHANGED << _vecStates, _mapTransitionTable, _state, logger, bIsStarted,
                                callerEv, driven, lastDest, lastLog, fault, build >>
           ELSE /\ fault' = "ub"
                /\ UNCHANGED << fsmVars, coroVars, pc, callerEv, result, chainVars, build >>
    /\ UNCHANGED progVars

\* What a state body may do with the event it holds before it yields: destroy it
\* (yield empty) or re-construct it with a name and an int payload.
BodyChoices(e) ==
    {destroy(e)} \cup {construct(e, n, "int", v) : n \in Names, v \in Payloads}

\* A yield that does not suspend the yielding body.
yieldedPosStillRunning == "running"

\* Where a coroutine that yielded is suspended: at co_await emitAndReceive().
yieldedPos == "awaitNext"

\* The body handles its event and reaches `event = co_await fsm.emitAndReceive(&event)`:
\* emitAndReceive moves the local event into self->_event and the coroutine suspends.
\* A body that does not recognise the event throws instead.
body(t) ==
    /\ pc[t] = "body"
    /\ fault = "none"
    /\ \E next \in BodyChoices(bodyEvent[cur[t]]), throws \in BOOLEAN :
       LET h == cur[t]
           self == fsmOf(h)
       IN  IF throws
           THEN /\ pos' = [pos EXCEPT ![h] = "final"]
                /\ bodyEvent' = [bodyEvent EXCEPT ![h] = EmptyEvent]
                /\ BackToCaller(t, Error("unrecognized", fsmName(self), currentState(self), bodyEvent[h].name))
                /\ UNCHANGED << fsmVars, bIsStarted, callerEv, driven, lastDest, lastLog, fault, build >>
           ELSE IF assertDestructThrows(_event[self])
           THEN /\ fault' = "terminate"
                /\ UNCHANGED << fsmVars, coroVars, pc, callerEv, result, chainVars, build >>
           ELSE /\ _event' = [_event EXCEPT ![self] = MovedTo(next)]
                /\ bodyEvent' = [bodyEvent EXCEPT ![h] = MovedFrom(next)]
                /\ pos' = [pos EXCEPT ![h] = yieldedPos]
                /\ pc' = [pc EXCEPT ![t] = "suspend"]
                /\ UNCHANGED << _vecStates, _mapTransitionTable, _state, _bIsActive, logger,
                                bIsStarted, callerEv, result, chainVars, fault, build >>
    /\ UNCHANGED progVars

\* An await_suspend that marks the machine active whatever was yielded.
activeOnYieldAlways(e) == TRUE

\* The value await_suspend writes to self->_bIsActive for the yielded event.
activeOnYield(e) == ~isEmpty(e)

\* A trace that is written whether or not a callback is attached.
loggedUnattached(self, n, from, e, to) ==
    [fsm |-> n, from |-> getName(from), ev |-> e.name, to |-> getName(to)]

\* The arguments of the trace callback, when one is attached to self.
logged(self, n, from, e, to) ==
    IF logger[self]
    THEN [fsm |-> n, from |-> getName(from), ev |-> e.name, to |-> getName(to)]
    ELSE lastLog

\* An await_suspend that writes self->_state whatever machine owns the target.
currentOfSelf(self, to) == self

\* The machine whose _state await_suspend writes for target `to`: self->_state on the
\* same-machine branch, to.fsm->_state on the other.
currentWritten(self, to) == to.fsm

\* FSM::Awaitable::await_suspend(fromState), up to the write of the target's _state:
\*  - empty event: _bIsActive = false, noop_coroutine: control returns to the resumer;
\*  - no table entry: the exception ends the yielding coroutine and reaches the caller;
\*  - target in this FSM: _state, logger, symmetric transfer to the target;
\*  - target in another FSM: to.fsm->_state is written; the move follows in handOver.
await_suspend(t) ==
    /\ pc[t] = "suspend"
    /\ fault = "none"
    /\ LET fromState == cur[t]
           self == fsmOf(fromState)
           onEvent == _event[self]
           to == targetOf(self, fromState, onEvent.name)
       IN  /\ _bIsActive' = [_bIsActive EXCEPT ![self] = activeOnYield(onEvent)]
           /\ IF isEmpty(onEvent)
              THEN /\ BackToCaller(t, Returned("emptyYield"))
                   /\ UNCHANGED << _state, pos, lastDest, lastLog >>
              ELSE IF to = NoTarget
              THEN /\ pos' = [pos EXCEPT ![fromState] = "final"]
                   /\ BackToCaller(t, Error("noTransition", fsmName(self), getName(fromState), onEvent.name))
                   /\ UNCHANGED << _state, lastDest, lastLog >>
              ELSE /\ _state' = [_state EXCEPT ![currentWritten(self, to)] = to.state]
                   /\ hop' = [hop EXCEPT ![t] = [from |-> fromState, ev |-> onEvent]]
                   /\ lastDest' = [lastDest EXCEPT ![t] = IF to.fsm = driven[t] THEN to.state ELSE @]
                   /\ measure' = [measure EXCEPT ![t] = routed(self, @)]
                   /\ IF to.fsm = self
                      THEN /\ lastLog' = logged(self, fsmName(self), fromState, onEvent, to.state)
                           /\ pc' = [pc EXCEPT ![t] = "resume"]
                           /\ cur' = [cur EXCEPT ![t] = to.state]
                           /\ stack' = [stack EXCEPT ![t] = symmetricTransfer(@, to.state)]
                           /\ UNCHANGED tgt
                      ELSE /\ pc' = [pc EXCEPT ![t] = "handover"]
                           /\ tgt' = [tgt EXCEPT ![t] = to]
                           /\ UNCHANGED << cur, lastLog, stack >>
                   /\ UNCHANGED << pos, result >>
    /\ UNCHANGED << driven, _vecStates, _mapTransitionTable, _event, logger, bIsStarted, bodyEvent,
                    callerEv, fault, build >>
    /\ UNCHANGED progVars

\* The builds that can have produced the run, given that assert(to.fsm->_event.isEmpty())
\* is about to be evaluated on e: a debug build aborts on a non-empty e.
Builds(e) ==
    IF isEmpty(e) THEN {build}
    ELSE IF build = "unknown" THEN {"debug", "ndebug"}
    ELSE {build}

\* await_suspend, cross-FSM branch after the write of to.fsm->_state:
\* assert(to.fsm->_event.isEmpty()); to.fsm->_event = std::move(self->_event);
\* logger; symmetric transfer to to.state. Move assignment clears the destination
\* first, which throws inside noexcept when it holds a live non-trivial payload.
handOver(t) ==
    /\ pc[t] = "handover"
    /\ fault = "none"
    /\ LET fromState == cur[t]
           self == fsmOf(fromState)
           to == tgt[t]
       IN  \E b \in Builds(_event[to.fsm]) :
             IF b = "debug"
             THEN /\ fault' = "assert"
                  /\ UNCHANGED << fsmVars, coroVars, pc, callerEv, result, chainVars, build >>
             ELSE IF assertDestructThrows(_event[to.fsm])
             THEN /\ fault' = "terminate"
                  /\ UNCHANGED << fsmVars, coroVars, pc, callerEv, result, chainVars, build >>
             ELSE /\ build' = b
                  /\ _event' = [_event EXCEPT ![to.fsm] = MovedTo(_event[self]),
                                              ![self] = MovedFrom(_event[self])]
                  /\ lastLog' = logged(self, << fsmName(self), fsmName(to.fsm) >>, fromState,
                                       _event[self], to.state)
                  /\ pc' = [pc EXCEPT ![t] = "resume"]
                  /\ cur' = [cur EXCEPT ![t] = to.state]
                  /\ tgt' = [tgt EXCEPT ![t] = NoTarget]
                  /\ stack' = [stack EXCEPT ![t] = symmetricTransfer(@, to.state)]
                  /\ UNCHANGED << _vecStates, _mapTransitionTable, _state, _bIsActive, logger,
                                  coroVars, callerEv, result, driven, lastDest, hop, fault,
                                  measure >>
    /\ UNCHANGED progVars

\* ------------------------------------------------------------------ specification

\* What the caller does between chains.
CallerStep(t) ==
    \/ \E m \in FSMs, h \in Handles : addState(t, m, h)
    \/ \E tr \in TransitionMenu : addTransition(t, tr)
    \/ \E m \in FSMs, h \in Handles, n \in Names : removeTransition(t, m, h, n)
    \/ \E m \in FSMs : start(t, m)
    \/ \E m \in FSMs, h \in Handles : setState(t, m, getName(h))
    \/ \E n \in Names, v \in Payloads : callerConstruct(t, n, v)
    \/ \E m \in FSMs : sendEvent(t, m)
    \/ callerContinue(t)

\* The steps of a dispatch chain.
ChainStep(t) ==
    \/ resume(t)
    \/ body(t)
    \/ await_suspend(t)
    \/ handOver(t)

\* One thread drives all the machines.
Next == CallerStep("t1") \/ ChainStep("t1")

Spec == Init /\ [][Next]_vars

\* ------------------------------------------------------------------ concurrent drivers

\* The machine each thread drives (fsm-example-rgb: one jthread per FSM, each calling
\* sendEvent on its own FSM).
home(t) == IF t = "t1" THEN "R" ELSE "G"

\* Every hand-over re-configured to the machine itself.
SelfTable ==
    [R |-> {[from |-> "r1", ev |-> "X", to |-> "r2", fsm |-> "R"],
            [from |-> "r2", ev |-> "X", to |-> "r2", fsm |-> "R"]},
     G |-> {[from |-> "g1", ev |-> "X", to |-> "g1", fsm |-> "G"]}]

\* The machines handing over to each other.
CrossTable ==
    [R |-> {[from |-> "r1", ev |-> "X", to |-> "r2", fsm |-> "R"],
            [from |-> "r2", ev |-> "X", to |-> "g1", fsm |-> "G"]},
     G |-> {[from |-> "g1", ev |-> "X", to |-> "r1", fsm |-> "R"]}]

\* All states registered, start() and setState() done on both machines, then one
\* thread per machine.
InitConc ==
    /\ _vecStates = [R |-> <<"r1", "r2">>, G |-> <<"g1">>]
    /\ _mapTransitionTable \in {SelfTable, CrossTable}
    /\ _state = [R |-> "r1", G |-> "g1"]
    /\ _event = [m \in FSMs |-> EmptyEvent]
    /\ _bIsActive = [m \in FSMs |-> FALSE]
    /\ logger = [m \in FSMs |-> m = "R"]
    /\ lastLog = NoLog
    /\ pos = [h \in Handles |-> startedPos("initial")]
    /\ bIsStarted = [h \in Handles |-> TRUE]
    /\ bodyEvent = [h \in Handles |-> EmptyEvent]
    /\ pc = [t \in Threads |-> "idle"]
    /\ cur = [t \in Threads |-> NullH]
    /\ tgt = [t \in Threads |-> NoTarget]
    /\ callerEv = [t \in Threads |-> EmptyEvent]
    /\ result = [t \in Threads |-> NoResult]
    /\ driven = [t \in Threads |-> "none"]
    /\ lastDest = [t \in Threads |-> NullH]
    /\ hop = [t \in Threads |-> NoHop]
    /\ fault = "none"
    /\ build = "unknown"
    /\ stack = [t \in Threads |-> << >>]
    /\ measure = [t \in Threads |-> NoMeasure]
    /\ roundsLeft = 0
    /\ direction = Clockwise
    /\ numEventsProcessed = 0
    /\ NoJThreads
    /\ NoMorse

\* kickOff: construct the event and send it to the thread's own machine.
kickOff(t) ==
    \/ \E n \in Names, v \in Payloads : callerConstruct(t, n, v)
    \/ sendEvent(t, home(t))
    \/ callerContinue(t)

NextConc == \E t \in Threads : kickOff(t) \/ ChainStep(t)

SpecConc == InitConc /\ [][NextConc]_vars

\* ------------------------------------------------------------------ ring, one driver

\* fsm-example-rgb, sequential part: the machines connected into a ring by
\* cross-machine hand-over transitions, all started, driven by one thread.
InitRing ==
    /\ InitConc
    /\ _mapTransitionTable = CrossTable

NextRing == kickOff("t1") \/ ChainStep("t1")

SpecRing == InitRing /\ [][NextRing]_vars

\* ------------------------------------------------------------------ table set-up

\* The set-up part of a program: states are registered and started, transitions are
\* added, replaced and removed, and no event is sent.
SetUpStep(t) ==
    \/ \E m \in FSMs, h \in Handles : addState(t, m, h)
    \/ \E tr \in TransitionMenu : addTransition(t, tr)
    \/ \E m \in FSMs, h \in Handles, n \in Names : removeTransition(t, m, h, n)
    \/ \E m \in FSMs : start(t, m)
    \/ \E m \in FSMs, h \in Handles : setState(t, m, getName(h))
    \/ callerContinue(t)

NextSetUp == SetUpStep("t1")

SpecSetUp == Init /\ [][NextSetUp]_vars

\* ------------------------------------------------------------------ registration

\* The state coroutines of a program that creates two coroutines of the same name.
StateObjects == Handles \cup {r1Again}

\* The program right after the construction of machines M, coroutines H and the
\* callers' events: nothing registered, nothing started.
Constructed(M, H) ==
    /\ _vecStates = [m \in M |-> << >>]
    /\ _mapTransitionTable = [m \in M |-> {}]
    /\ _state = [m \in M |-> NullH]
    /\ _event = [m \in M |-> EmptyEvent]
    /\ _bIsActive = [m \in M |-> FALSE]
    /\ logger = [m \in M |-> FALSE]
    /\ lastLog = NoLog
    /\ pos = [h \in H |-> "initial"]
    /\ bIsStarted = [h \in H |-> FALSE]
    /\ bodyEvent = [h \in H |-> EmptyEvent]
    /\ pc = [t \in Threads |-> "idle"]
    /\ cur = [t \in Threads |-> NullH]
    /\ tgt = [t \in Threads |-> NoTarget]
    /\ callerEv = [t \in Threads |-> EmptyEvent]
    /\ result = [t \in Threads |-> NoResult]
    /\ driven = [t \in Threads |-> "none"]
    /\ lastDest = [t \in Threads |-> NullH]
    /\ hop = [t \in Threads |-> NoHop]
    /\ fault = "none"
    /\ build = "unknown"
    /\ stack = [t \in Threads |-> << >>]
    /\ measure = [t \in Threads |-> NoMeasure]
    /\ roundsLeft = 0
    /\ direction = Clockwise
    /\ numEventsProcessed = 0
    /\ NoJThreads
    /\ NoMorse

InitStates == Constructed(FSMs, StateObjects)

\* States are registered, in any order, and started.
StatesStep(t) ==
    \/ \E m \in FSMs, h \in StateObjects : addState(t, m, h)
    \/ \E m \in FSMs : start(t, m)
    \/ \E m \in FSMs, h \in StateObjects : setState(t, m, getName(h))
    \/ callerContinue(t)

NextStates == StatesStep("t1")

SpecStates == InitStates /\ [][NextStates]_vars

\* ------------------------------------------------------------------ state bodies

\* `event = co_await fsm.emitAndReceive(&event)` of the body of h, up to the suspension:
\* the local event `next` is moved into self->_event (move assignment clears the
\* destination first) and the coroutine suspends.
emitAndReceive(t, h, next) ==
    LET self == fsmOf(h)
    IN  IF assertDestructThrows(_event[self])
        THEN /\ fault' = "terminate"
             /\ UNCHANGED << fsmVars, coroVars, pc, callerEv, result, chainVars, build >>
        ELSE /\ _event' = [_event EXCEPT ![self] = MovedTo(next)]
             /\ bodyEvent' = [bodyEvent EXCEPT ![h] = MovedFrom(next)]
             /\ pos' = [pos EXCEPT ![h] = yieldedPos]
             /\ pc' = [pc EXCEPT ![t] = "suspend"]
             /\ UNCHANGED << _vecStates, _mapTransitionTable, _state, _bIsActive, logger,
                             bIsStarted, callerEv, result, chainVars, fault, build >>

\* throw std::runtime_error("Unrecognized event ...") in the body of h: the exception
\* leaves the coroutine, which is finished, and reaches the caller of sendEvent.
unrecognized(t, h) ==
    /\ pos' = [pos EXCEPT ![h] = "final"]
    /\ bodyEvent' = [bodyEvent EXCEPT ![h] = EmptyEvent]
    /\ BackToCaller(t, Error("unrecognized", fsmName(fsmOf(h)), currentState(fsmOf(h)), bodyEvent[h].name))
    /\ UNCHANGED << fsmVars, bIsStarted, callerEv, driven, lastDest, lastLog, fault, build >>

\* ------------------------------------------------------------------ ping-pong

PingPongFSM == "PingPongFSM"
pingState == "pingState"
pongState == "pongState"
ToPingEvent == "ToPingEvent"
ToPongEvent == "ToPongEvent"

\* Largest counter main puts into the first event (the example sends 2).
MaxCounter == 3

\* A body that sends the counter on as it is.
pCounterKept(c) == c

\* *pCounter - 1
pCounterMinusOne(c) == c - 1

\* One turn of the loop of statePing / statePong in state h: on the event `mine` with
\* a positive counter the event is re-constructed as `theirs` with counter - 1, with
\* counter <= 0 it is destroyed; any other event is not recognised.
pingPongTurn(t, h, mine, theirs) ==
    LET event == bodyEvent[h]
        pCounter == dataAs(event, "int")
    IN  IF isEqual(event, mine)
        THEN emitAndReceive(t, h, IF pCounter > 0
                                  THEN construct(event, theirs, "int", pCounterMinusOne(pCounter))
                                  ELSE destroy(event))
        ELSE unrecognized(t, h)

statePing(t) ==
    /\ pc[t] = "body"
    /\ fault = "none"
    /\ cur[t] = pingState
    /\ pingPongTurn(t, pingState, ToPingEvent, ToPongEvent)
    /\ UNCHANGED progVars

statePong(t) ==
    /\ pc[t] = "body"
    /\ fault = "none"
    /\ cur[t] = pongState
    /\ pingPongTurn(t, pongState, ToPongEvent, ToPingEvent)
    /\ UNCHANGED progVars

\* The machines with the states vec and the tables tab, set up and started (every
\* state awaits its first event), with the current states st, for the threads T; log
\* tells which machines have a trace callback.
Machines(vec, tab, log, st, T) ==
    LET H == UNION {{vec[m][i] : i \in 1 .. Len(vec[m])} : m \in DOMAIN vec}
    IN  /\ _vecStates = vec
        /\ _mapTransitionTable = tab
        /\ _state = st
        /\ _event = [m \in DOMAIN vec |-> EmptyEvent]
        /\ _bIsActive = [m \in DOMAIN vec |-> FALSE]
        /\ logger = log
        /\ lastLog = NoLog
        /\ pos = [h \in H |-> startedPos("initial")]
        /\ bIsStarted = [h \in H |-> TRUE]
        /\ bodyEvent = [h \in H |-> EmptyEvent]
        /\ pc = [t \in T |-> "idle"]
        /\ cur = [t \in T |-> NullH]
        /\ tgt = [t \in T |-> NoTarget]
        /\ callerEv = [t \in T |-> EmptyEvent]
        /\ result = [t \in T |-> NoResult]
        /\ driven = [t \in T |-> "none"]
        /\ lastDest = [t \in T |-> NullH]
        /\ hop = [t \in T |-> NoHop]
        /\ fault = "none"
        /\ build = "unknown"
        /\ stack = [t \in T |-> << >>]
        /\ measure = [t \in T |-> NoMeasure]
        /\ roundsLeft = 0
        /\ direction = Clockwise
        /\ numEventsProcessed = 0

\* The program after machines were set up and started, no current state chosen yet.
SetUpAndStarted(vec, tab, log) ==
    /\ Machines(vec, tab, log, [m \in DOMAIN vec |-> NullH], Threads)
    /\ NoJThreads
    /\ NoMorse

\* setup(fsm).start(): two states, the two transitions between them, the Logger.
InitPingPong ==
    SetUpAndStarted(
        [m \in {PingPongFSM} |-> << pingState, pongState >>],
        [m \in {PingPongFSM} |->
            { [from |-> pingState, ev |-> ToPongEvent, to |-> pongState, fsm |-> PingPongFSM],
              [from |-> pongState, ev |-> ToPingEvent, to |-> pingState, fsm |-> PingPongFSM] }],
        [m \in {PingPongFSM} |-> TRUE])

\* main: e.construct(name, counter); fsm.setState(state).sendEvent(&e), any number of
\* times, and the chain each send drives.
NextPingPong ==
    \/ \E n \in {ToPingEvent, ToPongEvent}, v \in 0 .. MaxCounter : callerConstruct("t1", n, v)
    \/ \E h \in {pingState, pongState} : setState("t1", PingPongFSM, getName(h))
    \/ sendEvent("t1", PingPongFSM)
    \/ callerContinue("t1")
    \/ resume("t1")
    \/ statePing("t1")
    \/ statePong("t1")
    \/ await_suspend("t1")

SpecPingPong == InitPingPong /\ [][NextPingPong]_vars

\* ------------------------------------------------------------------ ring

RingFSM == "RingFSM"
ready == "ready"
StartEvent == "StartEvent"
ClockwiseEvent == "ClockwiseEvent"
CounterClockwiseEvent == "CounterClockwiseEvent"

\* Largest number of rounds main asks for (the example asks for 10000).
MaxRounds == 3

\* A start that runs one round more than asked for.
oneRoundMore(n) == (IF n > 1 THEN n ELSE 1) + 1

\* std::max(*pNumberOfRounds, 1)
maxWithOne(n) == IF n > 1 THEN n ELSE 1

\* One turn of the loop of readyState: StartEvent sets roundsLeft, the event of a
\* finished round turns the direction; then either another round is started in the
\* current direction (construct without payload) or the event is destroyed. The time
\* measurement is left out.
readyState(t) ==
    /\ pc[t] = "body"
    /\ fault = "none"
    /\ cur[t] = ready
    /\ UNCHANGED << rgbVars, morseVars >>
    /\ LET event == bodyEvent[ready]
           rounds == IF isEqual(event, StartEvent)
                     THEN maxWithOne(dataAs(event, "int"))
                     ELSE roundsLeft
           dir == IF isEqual(event, ClockwiseEvent) THEN CounterClockwise
                  ELSE IF isEqual(event, CounterClockwiseEvent) THEN Clockwise
                  ELSE direction
       IN  IF event.name \in {StartEvent, ClockwiseEvent, CounterClockwiseEvent}
           THEN /\ direction' = dir
                /\ IF rounds > 0
                   THEN /\ roundsLeft' = rounds - 1
                        /\ emitAndReceive(t, ready,
                               construct(event, IF dir = Clockwise THEN ClockwiseEvent
                                                ELSE CounterClockwiseEvent, "void", NoData))
                   ELSE /\ roundsLeft' = rounds
                        /\ emitAndReceive(t, ready, destroy(event))
                /\ UNCHANGED numEventsProcessed
           ELSE /\ unrecognized(t, ready)
                /\ UNCHANGED progVars

\* One turn of the loop of ringState: a round's event is counted and sent on as it is.
ringState(t) ==
    /\ pc[t] = "body"
    /\ fault = "none"
    /\ cur[t] \in RingStates
    /\ UNCHANGED << rgbVars, morseVars >>
    /\ LET event == bodyEvent[cur[t]]
       IN  IF isEqual(event, ClockwiseEvent) \/ isEqual(event, CounterClockwiseEvent)
           THEN /\ numEventsProcessed' = numEventsProcessed + 1
                /\ emitAndReceive(t, cur[t], event)
                /\ UNCHANGED << roundsLeft, direction >>
           ELSE /\ unrecognized(t, cur[t])
                /\ UNCHANGED progVars

\* main's transitions: clockwise from state i to i+1 and counter-clockwise back, and
\* the ready state between the last and the first state in both directions.
RingTable ==
    {[from |-> getStateAt(i), ev |-> ClockwiseEvent, to |-> getStateAt(i + 1), fsm |-> RingFSM] :
        i \in 0 .. statesInRing - 2}
    \cup
    {[from |-> getStateAt(i + 1), ev |-> CounterClockwiseEvent, to |-> getStateAt(i), fsm |-> RingFSM] :
        i \in 0 .. statesInRing - 2}
    \cup
    { [from |-> ready, ev |-> ClockwiseEvent, to |-> getStateAt(0), fsm |-> RingFSM],
      [from |-> getStateAt(statesInRing - 1), ev |-> ClockwiseEvent, to |-> ready, fsm |-> RingFSM],
      [from |-> ready, ev |-> CounterClockwiseEvent, to |-> getStateAt(statesInRing - 1), fsm |-> RingFSM],
      [from |-> getStateAt(0), ev |-> CounterClockwiseEvent, to |-> ready, fsm |-> RingFSM] }

\* main up to ring.start(): the ring states, then ready, the transitions, no logger.
InitRingExample ==
    SetUpAndStarted(
        [m \in {RingFSM} |-> [i \in 1 .. statesInRing + 1 |->
                                 IF i <= statesInRing THEN getStateAt(i - 1) ELSE ready]],
        [m \in {RingFSM} |-> RingTable],
        [m \in {RingFSM} |-> FALSE])

\* main: setState("ready"); e.construct("StartEvent", rounds); ring.sendEvent(&e), and
\* the chain the send drives. main starts one measurement.
NextRingExample ==
    \/ setState("t1", RingFSM, getName(ready))
    \/ \E n \in 0 .. MaxRounds :
          numEventsProcessed = 0 /\ callerConstruct("t1", StartEvent, n)
    \/ sendEvent("t1", RingFSM)
    \/ callerContinue("t1")
    \/ resume("t1")
    \/ readyState("t1")
    \/ ringState("t1")
    \/ await_suspend("t1")

SpecRingExample == InitRingExample /\ [][NextRingExample]_vars

\* ------------------------------------------------------------------ red, green, blue

RedFSM == "RED-FSM"
GreenFSM == "GREEN-FSM"
BlueFSM == "BLUE-FSM"
RGB == << RedFSM, GreenFSM, BlueFSM >>

HandOverEvent == "HandOverEvent"
StartBlinkEvent == "StartBlinkEvent"
BlinkReadyEvent == "BlinkReadyEvent"

\* The idle and the active state of the k-th machine.
idleStateOf(k) == << "RedIdleState", "GreenIdleState", "BlueIdleState" >>[k]
activeStateOf(k) == << "RedActiveState", "GreenActiveState", "BlueActiveState" >>[k]
IdleStates == {idleStateOf(k) : k \in 1 .. 3}
ActiveStates == {activeStateOf(k) : k \in 1 .. 3}

\* The machine that takes over from the k-th: red --> green --> blue --> red.
nextOf(k) == (k % 3) + 1

\* main's k-th sequential phase runs kickOff on the k-th machine in a jthread of its
\* own; the thread's stop token is told from the others by k, and 0 is a stop_token
\* without a stop state.
threadOf(k) == "t" \o ToString(k)
RGBThreads == {threadOf(k) : k \in 1 .. 3}
phaseOf(t) == CHOOSE k \in 1 .. 3 : threadOf(k) = t

\* Number of blinks before handing over to the next FSM.
iNumberOfBlinks == 2

\* Time of a single blink in milliseconds.
iBlinkTimeMs(h) ==
    CASE h = "GreenIdleState" -> 251
      [] h = "BlueIdleState" -> 252
      [] OTHER -> 250

\* stopToken.stop_requested(): the jthread that owns the stop state has requested stop.
stop_requested(k) == IF k = 0 THEN FALSE ELSE jthread[threadOf(k)] \in {"stopRequested", "joined"}

\* The program dies: an exception leaves a body whose local event holds a live
\* non-trivially destructible payload, and ~Event throws while the stack is unwound.
terminate ==
    /\ fault' = "terminate"
    /\ UNCHANGED << fsmVars, coroVars, pc, callerEv, result, chainVars, build >>

\* One turn of the loop of an idle state h. On HandOverEvent the stop token is moved
\* out of the payload, the payload is destroyed with its type where the body does so,
\* and the event is re-constructed as StartBlinkEvent; on BlinkReadyEvent the body
\* yields empty when stop was requested, else blinks again or hands over.
idleState(t, h, destroysPayload) ==
    /\ pc[t] = "body"
    /\ fault = "none"
    /\ cur[t] = h
    /\ UNCHANGED << roundsLeft, direction, numEventsProcessed, jthread, routedAtStop,
                    morseVars >>
    /\ LET event == bodyEvent[h]
       IN  IF isEqual(event, HandOverEvent)
           THEN LET kept == IF destroysPayload THEN destroyAs(event, "token") ELSE event
                IN  /\ stopToken' = [stopToken EXCEPT ![h] = dataAs(event, "token")]
                    /\ iBlinksLeft' = [iBlinksLeft EXCEPT ![h] = iNumberOfBlinks]
                    /\ IF constructThrows(kept)
                       THEN terminate
                       ELSE emitAndReceive(t, h,
                                construct(kept, StartBlinkEvent, "int", iBlinkTimeMs(h)))
           ELSE IF isEqual(event, BlinkReadyEvent)
           THEN IF stop_requested(stopToken[h])
                THEN /\ emitAndReceive(t, h, destroyAs(event, "void"))
                     /\ UNCHANGED << iBlinksLeft, stopToken >>
                ELSE IF iBlinksLeft[h] # 0 /\ iBlinksLeft[h] - 1 > 0
                THEN /\ iBlinksLeft' = [iBlinksLeft EXCEPT ![h] = @ - 1]
                     /\ emitAndReceive(t, h,
                            construct(event, StartBlinkEvent, "int", iBlinkTimeMs(h)))
                     /\ UNCHANGED stopToken
                ELSE /\ iBlinksLeft' = [iBlinksLeft EXCEPT ![h] = IF @ # 0 THEN @ - 1 ELSE @]
                     /\ emitAndReceive(t, h,
                            construct(event, HandOverEvent, "token", stopToken[h]))
                     /\ stopToken' = [stopToken EXCEPT ![h] = 0]
           ELSE /\ unrecognized(t, h)
                /\ UNCHANGED << iBlinksLeft, stopToken >>

\* The idle state of the red machine: it keeps the explicit-destroy contract.
redIdleState(t) == idleState(t, idleStateOf(1), TRUE)

\* greenIdleState: event.destroy(pStop) before event.construct("StartBlinkEvent", ...).
greenIdleState(t) == idleState(t, idleStateOf(2), TRUE)

\* blueIdleState: event.construct("StartBlinkEvent", ...) without a destroy.
blueIdleState(t) == idleState(t, idleStateOf(3), FALSE)

\* One turn of the loop of an active state: the LED is on for the time of the
\* StartBlinkEvent, then the event is recycled as BlinkReadyEvent.
activeState(t) ==
    /\ pc[t] = "body"
    /\ fault = "none"
    /\ cur[t] \in ActiveStates
    /\ LET event == bodyEvent[cur[t]]
       IN  IF isEqual(event, StartBlinkEvent)
           THEN IF constructThrows(event)
                THEN terminate
                ELSE emitAndReceive(t, cur[t], construct(event, BlinkReadyEvent, "void", NoData))
           ELSE unrecognized(t, cur[t])
    /\ UNCHANGED progVars

\* The tables of the factories with the inter-FSM transitions of main: the machines
\* run cyclically in the order red --> green --> blue.
RGBTable ==
    [m \in {RGB[k] : k \in 1 .. 3} |->
        LET k == CHOOSE i \in 1 .. 3 : RGB[i] = m
        IN  { [from |-> activeStateOf(k), ev |-> BlinkReadyEvent, to |-> idleStateOf(k), fsm |-> m],
              [from |-> idleStateOf(k), ev |-> StartBlinkEvent, to |-> activeStateOf(k), fsm |-> m],
              [from |-> idleStateOf(k), ev |-> HandOverEvent, to |-> idleStateOf(nextOf(k)),
               fsm |-> RGB[nextOf(k)]] }]

\* main before the first phase: the machines made, connected, started, their idle
\* states set as the initial states, tracing attached; no thread yet.
InitRGB ==
    /\ Machines([m \in {RGB[k] : k \in 1 .. 3} |->
                    LET k == CHOOSE i \in 1 .. 3 : RGB[i] = m
                    IN  << idleStateOf(k), activeStateOf(k) >>],
                RGBTable,
                [m \in {RGB[k] : k \in 1 .. 3} |-> TRUE],
                [m \in {RGB[k] : k \in 1 .. 3} |->
                    idleStateOf(CHOOSE i \in 1 .. 3 : RGB[i] = m)],
                RGBThreads)
    /\ iBlinksLeft = [h \in IdleStates |-> 0]
    /\ stopToken = [h \in IdleStates |-> 0]
    /\ jthread = [t \in RGBThreads |-> "none"]
    /\ routedAtStop = [t \in RGBThreads |-> 0]
    /\ NoMorse

\* A driver that starts a phase as soon as the thread of the phase before exists.
previousStarted(k) == IF k = 1 THEN TRUE ELSE jthread[threadOf(k - 1)] # "none"

\* The phase before the k-th is over: its jthread went out of scope, which requests
\* stop and joins.
previousJoined(k) == IF k = 1 THEN TRUE ELSE jthread[threadOf(k - 1)] = "joined"

\* std::jthread thread(kickOff, fsm) of the k-th phase.
startThread(k) ==
    /\ fault = "none"
    /\ jthread[threadOf(k)] = "none"
    /\ previousJoined(k)
    /\ jthread' = [jthread EXCEPT ![threadOf(k)] = "running"]
    /\ UNCHANGED << fsmVars, coroVars, pc, callerEv, result, chainVars, fault, build,
                    roundsLeft, direction, numEventsProcessed, iBlinksLeft, stopToken,
                    routedAtStop, morseVars >>

\* kickOff: e.construct("HandOverEvent", stopToken).
kickOffConstruct(t) ==
    /\ Idle(t)
    /\ jthread[t] # "none"
    /\ callerEv' = [callerEv EXCEPT ![t] = construct(@, HandOverEvent, "token", phaseOf(t))]
    /\ pc' = [pc EXCEPT ![t] = "ready"]
    /\ UNCHANGED << fsmVars, coroVars, result, chainVars, fault, build >>
    /\ UNCHANGED progVars

\* kickOff: fsm->sendEvent(&e).
kickOffSend(t) == pc[t] = "ready" /\ sendEvent(t, RGB[phaseOf(t)])

\* The end of the k-th phase's block, first half: ~jthread requests stop.
requestStop(k) ==
    /\ fault = "none"
    /\ jthread[threadOf(k)] = "running"
    /\ jthread' = [jthread EXCEPT ![threadOf(k)] = "stopRequested"]
    /\ routedAtStop' = [routedAtStop EXCEPT ![threadOf(k)] = measure[threadOf(k)].routed]
    /\ UNCHANGED << fsmVars, coroVars, pc, callerEv, result, chainVars, fault, build,
                    roundsLeft, direction, numEventsProcessed, iBlinksLeft, stopToken,
                    morseVars >>

\* The end of the k-th phase's block, second half: ~jthread joins the thread, whose
\* kickOff has returned.
join(k) ==
    /\ fault = "none"
    /\ jthread[threadOf(k)] = "stopRequested"
    /\ pc[threadOf(k)] = "done"
    /\ result[threadOf(k)].kind = "returned"
    /\ jthread' = [jthread EXCEPT ![threadOf(k)] = "joined"]
    /\ UNCHANGED << fsmVars, coroVars, pc, callerEv, result, chainVars, fault, build,
                    roundsLeft, direction, numEventsProcessed, iBlinksLeft, stopToken,
                    routedAtStop, morseVars >>

\* What a thread started by main does: kickOff and the chain its send drives.
ThreadStep(t) ==
    \/ kickOffConstruct(t)
    \/ kickOffSend(t)
    \/ resume(t)
    \/ redIdleState(t)
    \/ greenIdleState(t)
    \/ blueIdleState(t)
    \/ activeState(t)
    \/ await_suspend(t)
    \/ handOver(t)

\* main's sequential phases and the threads they run.
NextRGB ==
    \/ \E k \in 1 .. 3 : startThread(k)
    \/ \E k \in 1 .. 3 : requestStop(k)
    \/ \E k \in 1 .. 3 : join(k)
    \/ \E t \in RGBThreads : ThreadStep(t)

SpecRGB == InitRGB /\ [][NextRGB]_vars

\* ------------------------------------------------------------------ Morse timing

\* Largest of the small speeds main may ask for (the example asks for 12).
MaxWordsPerMinute == 60

\* The speeds tried: around zero, the usual ones, and around the upper limit.
Speeds == (-2 .. MaxWordsPerMinute) \cup (1198 .. 1202)

\* 1200u / i: the int i is converted to unsigned first, so a negative i becomes
\* 2^32 + i, which is more than 1200, and the quotient is 0. i is not 0.
udiv1200(i) == IF i < 0 THEN 0 ELSE 1200 \div i

min(a, b) == IF b < a THEN b ELSE a
max(a, b) == IF a < b THEN b ELSE a

\* A value std::clamp returned, or the failed assertion of a checked build.
Clamped(x) == [ok |-> TRUE, value |-> x]
ClampAssert == [ok |-> FALSE, value |-> 0]

\* std::clamp(v, lo, hi). With hi < lo the behaviour is undefined; the standard
\* libraries then give min(max(v, lo), hi), or (v < lo ? lo : hi < v ? hi : v), or fail
\* an assertion.
clamp(v, lo, hi) ==
    IF hi < lo
    THEN { Clamped(min(max(v, lo), hi)),
           Clamped(IF v < lo THEN lo ELSE IF hi < v THEN hi ELSE v),
           ClampAssert }
    ELSE { Clamped(IF v < lo THEN lo ELSE IF hi < v THEN hi ELSE v) }

\* The head of transmissionInProgressState:
\*   dotTimeInMs = 1200u / std::clamp(1, 1200, speedWordsPerMinute);
\*   dashTimeInMs = 3 * dotTimeInMs;
\* Division by zero is undefined.
transmissionInProgressState ==
    /\ fault = "none"
    /\ dotTimeInMs = NoData
    /\ \E c \in clamp(1, 1200, speedWordsPerMinute) :
          IF ~c.ok
          THEN /\ fault' = "assert"
               /\ UNCHANGED timingVars
          ELSE IF c.value = 0
          THEN /\ fault' = "ub"
               /\ UNCHANGED timingVars
          ELSE /\ dotTimeInMs' = udiv1200(c.value)
               /\ dashTimeInMs' = 3 * udiv1200(c.value)
               /\ UNCHANGED << speedWordsPerMinute, fault >>
    /\ UNCHANGED << fsmVars, coroVars, pc, callerEv, result, chainVars, build,
                    roundsLeft, direction, numEventsProcessed, rgbVars, textVars >>

\* main with some wordsPerMinute, before the state coroutines are created.
InitMorse ==
    /\ Machines([m \in {"Morse FSM"} |-> << >>], [m \in {"Morse FSM"} |-> {}],
                [m \in {"Morse FSM"} |-> FALSE], [m \in {"Morse FSM"} |-> NullH], {"t1"})
    /\ NoJThreads
    /\ speedWordsPerMinute \in Speeds
    /\ dotTimeInMs = NoData
    /\ dashTimeInMs = NoData
    /\ NoText

NextMorse == transmissionInProgressState

SpecMorse == InitMorse /\ [][NextMorse]_vars

\* ------------------------------------------------------------------ Morse messages

MorseFSM == "Morse FSM"

\* Longest message main sends (the example's longest has 31 characters).
MaxMessageLen == 2

\* Largest number of messages in main's text (the example has 3).
MaxMessages == 2

\* The characters of the messages: a lower-case letter, an upper-case letter, a space
\* and a character the map does not know.
TextChars == << "e", "T", " ", "?" >>

\* The std::string values main sends.
Messages == UNION {[1 .. n -> {TextChars[i] : i \in 1 .. Len(TextChars)}] : n \in 0 .. MaxMessageLen}

\* The map of transmitReadyState, for the characters in use.
MapKeys == << " ", "E", "T" >>
MapValues == << << " " >>, << "." >>, << "-" >> >>

\* std::toupper
toupper(c) == IF c = "e" THEN "E" ELSE c

\* map.contains(c) and map.at(c)
contains(c) == \E i \in 1 .. Len(MapKeys) : MapKeys[i] = c
at(c) == MapValues[CHOOSE i \in 1 .. Len(MapKeys) : MapKeys[i] = c]

\* The object a payload buffer holds is a number in the model; a std::string is the
\* number whose digits in base Len(TextChars) + 1 are the indices of its characters.
indexOfChar(c) == CHOOSE i \in 1 .. Len(TextChars) : TextChars[i] = c

RECURSIVE stringAsData(_)
stringAsData(str) ==
    IF str = << >>
    THEN 0
    ELSE stringAsData(SubSeq(str, 1, Len(str) - 1)) * (Len(TextChars) + 1)
         + indexOfChar(str[Len(str)])

RECURSIVE dataAsString(_)
dataAsString(d) ==
    IF d = 0
    THEN << >>
    ELSE Append(dataAsString(d \div (Len(TextChars) + 1)), TextChars[d % (Len(TextChars) + 1)])

\* A std::string_view into the map is the index of its key.
viewAsData(c) == CHOOSE i \in 1 .. Len(MapKeys) : MapKeys[i] = c
dataAsView(d) == MapValues[d]

\* One turn of the loop of transmitReadyState: a new message is taken out of the
\* event and the std::string in the buffer is destroyed; after a symbol the event is
\* destroyed when the message is finished; then the next character, if any, goes out
\* as TransmitSymbolEvent.
transmitReadyState(t) ==
    /\ pc[t] = "body"
    /\ fault = "none"
    /\ cur[t] = "transmitReady"
    /\ UNCHANGED << roundsLeft, direction, numEventsProcessed, rgbVars, timingVars,
                    symbol, signalsTransmitted, sent >>
    /\ LET h == cur[t]
           event == bodyEvent[h]
           isMessage == isEqual(event, "TransmitMessageEvent")
           msg == IF isMessage THEN dataAsString(dataAs(event, "string")) ELSE message
           n == IF isMessage THEN 0 ELSE symbolsSent
           kept == IF isMessage THEN destroyAs(event, "string")
                   ELSE IF n = Len(msg) THEN destroy(event) ELSE event
           charOut == IF contains(toupper(msg[n + 1])) THEN toupper(msg[n + 1]) ELSE " "
       IN  IF ~isMessage /\ ~isEqual(event, "TransmissionReadyEvent")
           THEN /\ unrecognized(t, h)
                /\ UNCHANGED << message, symbolsSent >>
           ELSE IF ~isMessage /\ n = Len(msg) /\ destroyThrows(event, "void")
           THEN /\ terminate
                /\ UNCHANGED << message, symbolsSent >>
           ELSE IF n < Len(msg)
           THEN IF constructThrows(kept)
                THEN /\ terminate
                     /\ UNCHANGED << message, symbolsSent >>
                ELSE /\ message' = msg
                     /\ symbolsSent' = n + 1
                     /\ emitAndReceive(t, h, construct(kept, "TransmitSymbolEvent",
                                                      "string_view", viewAsData(charOut)))
           ELSE /\ message' = msg
                /\ symbolsSent' = n
                /\ emitAndReceive(t, h, kept)

\* One turn of the loop of transmissionInProgressState: a new symbol is taken from
\* TransmitSymbolEvent, or the gap after a signal is waited for; then the next signal
\* goes out as DoBeepEvent with its duration, or the symbol is finished.
transmissionInProgressLoop(t) ==
    /\ pc[t] = "body"
    /\ fault = "none"
    /\ cur[t] = "transmissionInProgress"
    /\ UNCHANGED << roundsLeft, direction, numEventsProcessed, rgbVars, timingVars,
                    message, symbolsSent, sent >>
    /\ LET h == cur[t]
           event == bodyEvent[h]
           isSymbol == isEqual(event, "TransmitSymbolEvent")
           sym == IF isSymbol THEN dataAsView(dataAs(event, "string_view")) ELSE symbol
           n == IF isSymbol THEN 0 ELSE signalsTransmitted
           signal == sym[n + 1]
       IN  IF ~isSymbol /\ ~isEqual(event, "BeebDoneEvent")
           THEN /\ unrecognized(t, h)
                /\ UNCHANGED << symbol, signalsTransmitted >>
           ELSE IF constructThrows(event)
           THEN /\ terminate
                /\ UNCHANGED << symbol, signalsTransmitted >>
           ELSE /\ symbol' = sym
                /\ IF n < Len(sym)
                   THEN IF signal = "."
                        THEN /\ signalsTransmitted' = n + 1
                             /\ emitAndReceive(t, h, construct(event, "DoBeepEvent",
                                                              "unsigned", dotTimeInMs))
                        ELSE IF signal = "-"
                        THEN /\ signalsTransmitted' = n + 1
                             /\ emitAndReceive(t, h, construct(event, "DoBeepEvent",
                                                              "unsigned", dashTimeInMs))
                        ELSE /\ signalsTransmitted' = Len(sym)
                             /\ emitAndReceive(t, h, construct(event, "TransmissionReadyEvent",
                                                              "void", NoData))
                   ELSE /\ signalsTransmitted' = n
                        /\ emitAndReceive(t, h, construct(event, "TransmissionReadyEvent",
                                                         "void", NoData))

\* One turn of the loop of soundOnState: the sound is on for the time of the
\* DoBeepEvent and off again, and the event is recycled as BeebDoneEvent.
soundOnState(t) ==
    /\ pc[t] = "body"
    /\ fault = "none"
    /\ cur[t] = "soundOn"
    /\ UNCHANGED progVars
    /\ LET h == cur[t]
           event == bodyEvent[h]
       IN  IF isEqual(event, "DoBeepEvent")
           THEN IF constructThrows(event)
                THEN terminate
                ELSE emitAndReceive(t, h, construct(event, "BeebDoneEvent", "void", NoData))
           ELSE unrecognized(t, h)

\* The transition table of main.
MorseTable ==
    { [from |-> "transmitReady", ev |-> "TransmitSymbolEvent",
       to |-> "transmissionInProgress", fsm |-> MorseFSM],
      [from |-> "transmissionInProgress", ev |-> "TransmissionReadyEvent",
       to |-> "transmitReady", fsm |-> MorseFSM],
      [from |-> "transmissionInProgress", ev |-> "DoBeepEvent",
       to |-> "soundOn", fsm |-> MorseFSM],
      [from |-> "soundOn", ev |-> "BeebDoneEvent",
       to |-> "transmissionInProgress", fsm |-> MorseFSM] }

\* main after morse.start().setState("transmitReady"): the three states wait for
\* their first event, no logger is attached, and the durations are what the head of
\* transmissionInProgressState made of 12 words per minute.
InitMorseMain ==
    /\ Machines([m \in {MorseFSM} |-> << "transmitReady", "transmissionInProgress", "soundOn" >>],
                [m \in {MorseFSM} |-> MorseTable],
                [m \in {MorseFSM} |-> FALSE],
                [m \in {MorseFSM} |-> "transmitReady"],
                {"t1"})
    /\ NoJThreads
    /\ speedWordsPerMinute = 12
    /\ \E c \in clamp(1, 1200, speedWordsPerMinute) :
          /\ c.ok
          /\ dotTimeInMs = udiv1200(c.value)
          /\ dashTimeInMs = 3 * udiv1200(c.value)
    /\ NoText

\* An exception that leaves main ends the process.
uncaught ==
    /\ fault' = "terminate"
    /\ UNCHANGED << fsmVars, coroVars, pc, callerEv, result, chainVars, build >>

\* The flag a construct in main's event has to find cleared.
mustBeDestroyedFirst(e) == constructThrows(e)

\* main's loop, first half: e.construct("TransmitMessageEvent", str) in the Event that
\* carried the previous message.
mainConstruct(t) ==
    /\ Idle(t)
    /\ sent < MaxMessages
    /\ \E str \in Messages :
          IF mustBeDestroyedFirst(callerEv[t])
          THEN /\ uncaught
               /\ UNCHANGED sent
          ELSE /\ callerEv' = [callerEv EXCEPT ![t] =
                                 construct(@, "TransmitMessageEvent", "string", stringAsData(str))]
               /\ pc' = [pc EXCEPT ![t] = "ready"]
               /\ sent' = sent + 1
               /\ UNCHANGED << fsmVars, coroVars, result, chainVars, fault, build >>
    /\ UNCHANGED << roundsLeft, direction, numEventsProcessed, rgbVars, timingVars,
                    symbol, signalsTransmitted, message, symbolsSent >>

\* main's loop, second half: morse.sendEvent(&e).
mainSend(t) == pc[t] = "ready" /\ sendEvent(t, MorseFSM)

NextMorseMain ==
    \/ mainConstruct("t1")
    \/ mainSend("t1")
    \/ callerContinue("t1")
    \/ resume("t1")
    \/ transmitReadyState("t1")
    \/ transmissionInProgressLoop("t1")
    \/ soundOnState("t1")
    \/ await_suspend("t1")

SpecMorseMain == InitMorseMain /\ [][NextMorseMain]_vars

\* ------------------------------------------------------------------ events alone

\* Two Event objects, default-constructed, and every sequence of Event calls of one
\* caller on the first, with moves between the two.
InitEvent == Constructed(FSMs, Handles)

NextEvent == EventStep("t1")

SpecEvent == InitEvent /\ [][NextEvent]_vars

\* ------------------------------------------------------------------ claims

\* The table entries of key {h, n}, read from the table itself.
Entries(m, h, n) == {e \in _mapTransitionTable[m] : e.from = h /\ e.ev = n}

SamePayload(a, b) == a.name = b.name /\ a.data = b.data

InChain(t) == pc[t] \in {"resume", "body", "suspend", "handover"}

Running == {h \in Handles : pos[h] = "running"}

\* C1: when a state of machine M yields a non-empty event E and M's table maps
\* (yielding state, E.name) to a state D of M, then M's current state becomes D, D is
\* the coroutine resumed next with E in the in-flight slot, and D's body receives E
\* (same name, same payload) before anything else happens in the chain.
C1_SameMachineRouting ==
    [][\A t \in Threads :
         LET h == cur[t]
             self == fsmOf(h)
             E == _event[self]
         IN  /\ (await_suspend(t) /\ ~isEmpty(E)
                   /\ \E e \in Entries(self, h, E.name) : e.fsm = self)
                => \E e \in Entries(self, h, E.name) :
                      /\ _state'[self] = e.to
                      /\ pc'[t] = "resume" /\ cur'[t] = e.to
                      /\ _event'[self] = E
             /\ (resume(t) /\ hop[t] # NoHop /\ fsmOf(hop[t].from) = self)
                => /\ pc'[t] = "body"
                   /\ pos'[h] = "running"
                   /\ SamePayload(bodyEvent'[h], hop[t].ev)
      ]_vars

\* C2: when a state of machine M yields a non-empty event E and M's table has no
\* entry for (yielding state, E.name), the send call ends with the 'no transition'
\* error naming M, the yielding state and E; no coroutine is resumed and no current
\* state changes.
C2_NoTransitionError ==
    [][\A t \in Threads :
         LET h == cur[t]
             self == fsmOf(h)
             E == _event[self]
         IN  (await_suspend(t) /\ ~isEmpty(E) /\ Entries(self, h, E.name) = {})
             => /\ pc'[t] = "done"
                /\ result'[t] = Error("noTransition", fsmName(self), getName(h), E.name)
                /\ _state' = _state
                /\ bodyEvent' = bodyEvent
                /\ \A k \in Handles : pos'[k] # "running"
                /\ \A k \in Handles \ {h} : pos'[k] = pos[k]
      ]_vars

C2_Witness ==
    \E t \in Threads :
        /\ pc[t] = "done"
        /\ result[t].kind = "error"
        /\ result[t].what = "noTransition"

\* C3: when send on machine M returns because a state of its chain yielded an empty
\* event, M.is_active() is false and M's current state is the destination of the last
\* transition routed into M (or the state the event was sent to).
C3_ChainEnd ==
    \A t \in Threads :
        (pc[t] = "done" /\ result[t] = Returned("emptyYield"))
        => /\ ~_bIsActive[driven[t]]
           /\ _state[driven[t]] = lastDest[t]

\* C4: a send call returns normally only from a state's yield of an empty event.
C4_ReturnsOnlyAfterEmptyYield ==
    [][\A t \in Threads :
         (InChain(t) /\ pc'[t] = "done" /\ result'[t].kind = "returned")
         => (await_suspend(t) /\ isEmpty(_event[fsmOf(cur[t])]))
      ]_vars

\* C5: a hand-over from a state of R to state T of another machine G leaves R's
\* current state unchanged, makes T the current state of G, empties R's in-flight
\* slot, and the event T's body receives has the name and payload R's event had.
C5_CrossMachineHandOver ==
    [][\A t \in Threads :
         LET h == cur[t]
             self == fsmOf(h)
             E == _event[self]
         IN  /\ (await_suspend(t) /\ ~isEmpty(E)
                   /\ \E e \in Entries(self, h, E.name) : e.fsm # self)
                => \E e \in Entries(self, h, E.name) :
                      /\ _state'[self] = _state[self]
                      /\ _state'[e.fsm] = e.to
                      /\ pc'[t] = "handover"
                      /\ tgt'[t] = [state |-> e.to, fsm |-> e.fsm]
             /\ (handOver(t) /\ pc'[t] = "resume")
                => /\ _state' = _state
                   /\ isEmpty(_event'[self])
                   /\ _event'[self].cap = 0
                   /\ SamePayload(_event'[tgt[t].fsm], E)
                   /\ cur'[t] = tgt[t].state
                   /\ hop'[t].ev = E
             /\ (resume(t) /\ hop[t] # NoHop /\ fsmOf(hop[t].from) # self /\ pc'[t] = "body")
                => SamePayload(bodyEvent'[h], hop[t].ev)
      ]_vars

C5_Witness ==
    \E t \in Threads :
        /\ pc[t] = "body"
        /\ driven[t] # fsmOf(cur[t])
        /\ isEmpty(_event[driven[t]])
        /\ _state[driven[t]] # cur[t]
        /\ _state[fsmOf(cur[t])] = cur[t]
        /\ ~isEmpty(bodyEvent[cur[t]])

\* C6: under a single driving thread, the destination machine's in-flight slot is
\* empty whenever an event is about to be moved into it by a hand-over.
C6_HandOverSlotEmpty ==
    \A t \in Threads :
        pc[t] = "handover" => isEmpty(_event[tgt[t].fsm])

C10_SendToUnstarted ==
    [][\A t \in Threads, m \in FSMs :
         (sendEvent(t, m) /\ _state[m] \in Registered(m) /\ ~bIsStarted[_state[m]])
         => /\ pc'[t] = "done"
            /\ result'[t] = Error("notStarted", fsmName(m), getName(_state[m]), callerEv[t].name)
            /\ pos' = pos /\ bIsStarted' = bIsStarted /\ bodyEvent' = bodyEvent
            /\ _event' = _event /\ _state' = _state /\ _bIsActive' = _bIsActive
            /\ callerEv' = callerEv
            /\ fault' = "none"
      ]_vars

C10_Witness ==
    \E t \in Threads :
        /\ pc[t] = "done"
        /\ result[t].kind = "error"
        /\ result[t].what = "notStarted"
        /\ ~isEmpty(callerEv[t])

\* Every transition of every machine leads to a state of the same machine.
SelfOnly == \A m \in FSMs : \A e \in _mapTransitionTable[m] : e.fsm = m

\* A step of thread t leaves every other machine as it was and stays in t's machine.
OwnMachineOnly(t) ==
    /\ \A m \in FSMs \ {home(t)} :
          /\ _state'[m] = _state[m]
          /\ _event'[m] = _event[m]
          /\ _bIsActive'[m] = _bIsActive[m]
          /\ _mapTransitionTable'[m] = _mapTransitionTable[m]
          /\ \A h \in Registered(m) : pos'[h] = pos[h] /\ bodyEvent'[h] = bodyEvent[h]
    /\ InChain(t)' => fsmOf(cur'[t]) = home(t)

\* is_active() of the machine of thread t while its chain runs a body and after the
\* chain ended.
ActiveWhileRunning(t) ==
    /\ pc[t] = "body" => _bIsActive[home(t)]
    /\ (pc[t] = "done" /\ result[t] = Returned("emptyYield")) => ~_bIsActive[home(t)]

\* C8: when every table routes only to states of its own machine, machines driven
\* from separate threads do not interfere (a step of one thread touches no other
\* machine's current state, in-flight event, is_active flag, table or bodies, and
\* its chain stays in its own machine), and every machine reports is_active() true
\* while its chain runs and false after it ended.
C8_IndependentMachines ==
    /\ [][\A t \in Threads :
            (SelfOnly /\ (kickOff(t) \/ ChainStep(t))) => OwnMachineOnly(t)]_vars
    /\ [](SelfOnly => \A t \in Threads : ActiveWhileRunning(t))

\* The hand-over of thread t is about to overwrite an undelivered event.
SlotOverwritten(t) == pc[t] = "handover" /\ ~isEmpty(_event[tgt[t].fsm])

\* The machine whose body thread t executes has had its current state moved elsewhere.
StateOverwritten(t) == pc[t] = "body" /\ _state[fsmOf(cur[t])] # cur[t]

\* A body of a machine is resumed or executing while thread t executes a body of
\* that machine.
BodyReentered(t) ==
    /\ pc[t] = "body"
    /\ \E u \in Threads \ {t} :
          /\ pc[u] \in {"resume", "body"}
          /\ fsmOf(cur[u]) = fsmOf(cur[t])

\* C9: with the machines driven by one thread at a time, no hand-over finds the
\* destination's in-flight slot non-empty, no machine's current state is overwritten
\* while one of its bodies executes, and no body of a machine is resumed while
\* another body of that machine executes.
C9_SafeUnderSingleDriver ==
    \A t \in Threads :
        ~SlotOverwritten(t) /\ ~StateOverwritten(t) /\ ~BodyReentered(t)

\* The interleavings of C9 under concurrent drivers: each of the three unsafe states.
C9_ConcurrentSlotOverwritten == \E t \in Threads : SlotOverwritten(t)
C9_ConcurrentStateOverwritten == \E t \in Threads : StateOverwritten(t)
C9_ConcurrentBodyReentered == \E t \in Threads : BodyReentered(t)

\* C11: after start() on machine M every state registered in M is started; the ones
\* that were not started are suspended awaiting their first event and the ones that
\* were started are not resumed; start() delivers no event to any body; a started
\* flag changes only from false to true, as its coroutine leaves initial_suspend,
\* and never reverts.
C11_Start ==
    [][/\ \A t \in Threads, m \in FSMs :
            start(t, m)
            => /\ \A h \in Registered(m) :
                     /\ bIsStarted'[h]
                     /\ ~bIsStarted[h] => pos'[h] = "awaitFirst"
                     /\ bIsStarted[h] => pos'[h] = pos[h]
               /\ \A h \in Handles \ Registered(m) :
                     pos'[h] = pos[h] /\ bIsStarted'[h] = bIsStarted[h]
               /\ bodyEvent' = bodyEvent /\ _event' = _event /\ _state' = _state
               /\ \A h \in Handles : pos'[h] # "running"
       /\ \A h \in Handles :
            /\ bIsStarted[h] => bIsStarted'[h]
            /\ bIsStarted'[h] # bIsStarted[h] => (pos[h] = "initial" /\ pos'[h] = "awaitFirst")
            /\ pos'[h] = "initial" => pos[h] = "initial"
            /\ bIsStarted'[h] <=> pos'[h] # "initial"
      ]_vars

C11_Witness ==
    /\ pc["t1"] = "idle"
    /\ Registered("R") = {"r1", "r2"}
    /\ \A h \in Registered("R") : bIsStarted[h]
    /\ pos["r1"] = "awaitNext"
    /\ pos["r2"] = "awaitFirst"
    /\ \A e \in _mapTransitionTable["R"] \cup _mapTransitionTable["G"] : e.to # "r2"

\* The step is the routing decision of thread t for an event yielded by a state of m.
YieldStep(t, m) == await_suspend(t) /\ fsmOf(cur[t]) = m

\* The step is the delivery by thread t of the in-flight event of m to a state of m.
DeliveryStep(t, m) == resume(t) /\ fsmOf(cur[t]) = m /\ pos[cur[t]] \in {"awaitFirst", "awaitNext"}

ActiveMachines == {m \in FSMs : _bIsActive[m]}

\* C13: in the ring of machines connected by cross-machine hand-over transitions and
\* driven by one thread, exactly one machine reports is_active() true while a body of
\* the chain runs, and every machine reports false after the chain has ended with an
\* empty yield.
C13_RingActivity ==
    \A t \in Threads :
        /\ pc[t] = "body" => Cardinality(ActiveMachines) = 1
        /\ (pc[t] = "done" /\ result[t] = Returned("emptyYield")) => ActiveMachines = {}

\* C14: current_state of a machine is written only by a transition routed into the
\* machine (to that transition's destination) and by set_state (to the state of that
\* name); a send on a machine whose current state is started places the caller's event
\* and resumes exactly current_state, whose body receives the event that was sent. So
\* a send after a suspended chain goes to the destination of the last routed
\* transition, or to the state named by a later set_state.
C14_ReEntry ==
    [][/\ \A m \in FSMs :
            _state'[m] # _state[m]
            => \/ \E t \in Threads :
                     /\ await_suspend(t)
                     /\ \E e \in Entries(fsmOf(cur[t]), cur[t], _event[fsmOf(cur[t])].name) :
                           e.fsm = m /\ _state'[m] = e.to
               \/ \E t \in Threads, h \in Handles :
                     /\ setState(t, m, getName(h))
                     /\ _state'[m] = IF h \in Registered(m) THEN h ELSE NullH
       /\ \A t \in Threads, m \in FSMs :
            \A h \in Registered(m) : setState(t, m, getName(h)) => _state'[m] = h
       /\ \A t \in Threads, m \in FSMs :
            (sendEvent(t, m) /\ pc'[t] = "resume")
            => /\ cur'[t] = _state[m]
               /\ _state' = _state
               /\ _event'[m] = callerEv[t]
       /\ \A t \in Threads :
            (resume(t) /\ hop[t] = NoHop /\ pc'[t] = "body")
            => /\ cur[t] = _state[fsmOf(cur[t])]
               /\ SamePayload(bodyEvent'[cur[t]], _event[fsmOf(cur[t])])
      ]_vars

C14_Witness ==
    /\ pc["t1"] = "body"
    /\ driven["t1"] = "R"
    /\ cur["t1"] = "r1"
    /\ _state["R"] = "r1"
    /\ lastLog = NoLog
    /\ pos["r2"] = "awaitNext"
    /\ pos["g1"] \in {"initial", "awaitFirst"}

C16_InFlightEmptyWhenIdle ==
    (\A t \in Threads : ~InChain(t)) => \A m \in FSMs : isEmpty(_event[m])

\* A holder that gave its event away: empty name, no buffer.
GaveAway(e) == isEmpty(e) /\ e.cap = 0 /\ e.data = NoData

\* C17: every hand-off of an event (send, receive, yield, cross-machine hand-over)
\* moves it: the new holder has the name and payload the previous holder had, the
\* previous holder is left empty, and the new holder held no live event before, so
\* that no payload is duplicated and none is lost while live.
C17_ExclusiveOwnership ==
    [][\A t \in Threads :
         LET h == cur[t]
             self == fsmOf(h)
         IN  /\ \A m \in FSMs :
                  (sendEvent(t, m) /\ pc'[t] = "resume")
                  => /\ isEmpty(_event[m])
                     /\ _event'[m] = callerEv[t]
                     /\ GaveAway(callerEv'[t])
             /\ (resume(t) /\ pc'[t] = "body")
                => /\ isEmpty(bodyEvent[h])
                   /\ bodyEvent'[h] = _event[self]
                   /\ GaveAway(_event'[self])
             /\ (body(t) /\ pc'[t] = "suspend")
                => /\ isEmpty(_event[self])
                   /\ _event'[self] \in BodyChoices(bodyEvent[h])
                   /\ GaveAway(bodyEvent'[h])
             /\ (handOver(t) /\ pc'[t] = "resume")
                => /\ isEmpty(_event[tgt[t].fsm])
                   /\ _event'[tgt[t].fsm] = _event[self]
                   /\ GaveAway(_event'[self])
      ]_vars

\* What the two lookups of the table report for a key.
Lookup(m, h, n) == << hasTransition(m, h, n), targetState(m, h, n), targetOf(m, h, n) >>

\* The step adds transition tr and returns.
Adds(t, tr) == result'[t].kind = "value" /\ addTransition(t, tr)

\* The step removes the transition of key (h, n) of machine m.
Removes(t, m, h, n) ==
    result'[t].kind = "value" /\ h \in Registered(m) /\ removeTransition(t, m, h, n)

\* C18: after an add for key (from, event) the lookups report the added destination;
\* after a remove of the key they report not-found; no other step, and no add or
\* remove of another key, changes what the lookups report for the key. So a lookup
\* always returns the destination of the most recent add not followed by a remove.
C18_TableLookup ==
    [][/\ \A t \in Threads, tr \in TransitionMenu :
            Adds(t, tr)
            => Lookup(tr.owner, tr.from, tr.ev)' =
                  << TRUE, tr.to, [state |-> tr.to, fsm |-> tr.fsm] >>
       /\ \A t \in Threads, m \in FSMs, h \in Handles, n \in Names :
            Removes(t, m, h, n) => Lookup(m, h, n)' = << FALSE, "", NoTarget >>
       /\ _mapTransitionTable' # _mapTransitionTable
            => \A m \in FSMs, h \in Handles, n \in Names :
                  Lookup(m, h, n)' # Lookup(m, h, n)
                  => \E t \in Threads :
                        \/ \E tr \in TransitionMenu :
                              Adds(t, tr) /\ tr.owner = m /\ tr.from = getName(h) /\ tr.ev = n
                        \/ Removes(t, m, h, n)
      ]_vars

C18_Witness ==
    /\ pc["t1"] = "done"
    /\ result["t1"] = Value("removeTransition", TRUE)
    /\ hasTransition("R", "r1", "X") /\ targetState("R", "r1", "X") = "r2"
    /\ ~hasTransition("R", "r2", "X") /\ targetState("R", "r2", "X") = ""
    /\ ~hasTransition("G", "g1", "X")

\* C19: add_transition returns true iff the key had no entry and false iff it
\* replaced one; afterwards the key has exactly one entry, with the new destination
\* state and the new destination machine, which is the target the routing lookup
\* finds; remove_transition returns true iff the key had an entry, and removes it; a
\* key never has more than one entry.
C19_AddRemoveResults ==
    /\ [][/\ \A t \in Threads, tr \in TransitionMenu :
               Adds(t, tr)
               => /\ result'[t] = Value("addTransition", Entries(tr.owner, tr.from, tr.ev) = {})
                  /\ Entries(tr.owner, tr.from, tr.ev)' =
                        {[from |-> tr.from, ev |-> tr.ev, to |-> tr.to, fsm |-> tr.fsm]}
                  /\ targetOf(tr.owner, tr.from, tr.ev)' = [state |-> tr.to, fsm |-> tr.fsm]
          /\ \A t \in Threads, m \in FSMs, h \in Handles, n \in Names :
               Removes(t, m, h, n)
               => /\ result'[t] = Value("removeTransition", Entries(m, h, n) # {})
                  /\ Entries(m, h, n)' = {}
         ]_vars
    /\ [](\A m \in FSMs, h \in Handles, n \in Names : Cardinality(Entries(m, h, n)) <= 1)

C19_Witness ==
    /\ pc["t1"] = "done"
    /\ result["t1"] = Value("addTransition", FALSE)
    /\ targetOf("R", "r2", "X") = [state |-> "r2", fsm |-> "R"]
    /\ hasTransition("G", "g1", "X")

\* The names of the states registered in machine m.
RegisteredNames(m) == {getName(h) : h \in Registered(m)}

\* C20: add_transition with a from-state name that is not registered in its machine,
\* or a to-state name that is not registered in the target machine, ends with a fatal
\* error and leaves every transition table unchanged; with both names registered it
\* does not fail.
C20_AddTransitionUnknownState ==
    [][\A t \in Threads, tr \in TransitionMenu :
         (pc'[t] = "done" /\ addTransition(t, tr))
         => IF tr.from \notin RegisteredNames(tr.owner) \/ tr.to \notin RegisteredNames(tr.fsm)
            THEN /\ result'[t].kind = "error"
                 /\ result'[t].what \in {"unknownSource", "unknownTarget"}
                 /\ result'[t].what = "unknownSource" <=> tr.from \notin RegisteredNames(tr.owner)
                 /\ _mapTransitionTable' = _mapTransitionTable
            ELSE result'[t].kind = "value"
      ]_vars

C20_Witness ==
    /\ pc["t1"] = "done"
    /\ result["t1"].kind = "error"
    /\ result["t1"].what = "unknownTarget"
    /\ result["t1"].state = "r2"
    /\ "r2" \notin RegisteredNames("R")
    /\ hasTransition("G", "g1", "X")

\* C21: add_state with a state whose name is already registered in the machine ends
\* with a fatal error and leaves the registered states unchanged; otherwise the state
\* is appended, its index is returned and the indices of the earlier states do not
\* change; so the names of the states registered in one machine are pairwise distinct.
C21_AddState ==
    /\ [][\A t \in Threads, m \in FSMs, h \in StateObjects :
            (pc'[t] = "done" /\ addState(t, m, h))
            => IF getName(h) \in RegisteredNames(m)
               THEN /\ result'[t].kind = "error"
                    /\ result'[t].what = "duplicateState"
                    /\ _vecStates' = _vecStates
               ELSE /\ result'[t] = Index("addState", Len(_vecStates[m]))
                    /\ Len(_vecStates'[m]) = Len(_vecStates[m]) + 1
                    /\ _vecStates'[m][result'[t].index + 1] = h
                    /\ \A i \in 1 .. Len(_vecStates[m]) : _vecStates'[m][i] = _vecStates[m][i]
                    /\ \A k \in FSMs \ {m} : _vecStates'[k] = _vecStates[k]
         ]_vars
    /\ [](\A m \in FSMs : \A i, j \in 1 .. Len(_vecStates[m]) :
             getName(_vecStates[m][i]) = getName(_vecStates[m][j]) => i = j)

C21_Witness ==
    /\ pc["t1"] = "done"
    /\ result["t1"].kind = "error"
    /\ result["t1"].what = "duplicateState"
    /\ result["t1"].state = "r1"
    /\ _vecStates["R"] = << "r2", r1Again >>

\* The Event call of thread t failed with the error of assertDestruct and left the
\* event (name, payload, capacity, needs-explicit-destroy flag) as it was.
Refused(t) ==
    /\ result'[t] = NeedsDestroy(callerEv[t])
    /\ callerEv'[t] = callerEv[t]
    /\ fault' = "none"

\* The Event call `op` of thread t returned.
Succeeded(t, op) == result'[t] = Done(op) /\ fault' = "none"

\* The step is a construct call of thread t with a payload of type T.
Constructs(t, T) == \E n \in EventNames, v \in Payloads : evConstruct(t, n, T, v)

\* C22: on an Event that holds a live payload with a destructor, not yet destroyed
\* with its type, construct (with or without payload), destroy() without the type,
\* clear, a growing reserve and the release of the Event each fail with a fatal error
\* and leave name, payload, capacity and flag unchanged; the typed destroy succeeds and
\* clears the flag, and on an Event whose flag is clear all of these calls succeed.
C22_ExplicitDestroy ==
    [][LET t == "t1"
           e == callerEv[t]
       IN  IF e.nt
           THEN /\ \A T \in Types : Constructs(t, T) => Refused(t)
                /\ \A T \in Types \ {"token"} : evDestroy(t, T) => Refused(t)
                /\ evClear(t) => Refused(t)
                /\ \A size \in Sizes : (size > capacity(e) /\ evReserve(t, size)) => Refused(t)
                /\ evRelease(t) => (fault' = "terminate" /\ callerEv'[t] = e)
                /\ evDestroy(t, "token") => (Succeeded(t, "destroy") /\ ~callerEv'[t].nt)
           ELSE /\ \A T \in Types : Constructs(t, T) => Succeeded(t, "construct")
                /\ \A T \in Types : evDestroy(t, T) => Succeeded(t, "destroy")
                /\ evClear(t) => Succeeded(t, "clear")
                /\ \A size \in Sizes : evReserve(t, size) => Succeeded(t, "reserve")
                /\ evRelease(t) => Succeeded(t, "release")
      ]_vars

C22_Witness ==
    /\ result["t1"].kind = "error"
    /\ result["t1"].what = "needsDestroy"
    /\ result["t1"].ev = "X"
    /\ callerEv["t1"].nt
    /\ callerEv["t1"].name = "X"
    /\ capacity(callerEv["t1"]) = SizeOf("token")

\* C23: construct<T>(name, v) followed by read<T>() yields v and the event compares
\* equal to name; after destroy<T>() the event is empty and needs no explicit destroy,
\* and a second destroy changes nothing.
C23_RoundTrip ==
    [][LET t == "t1"
       IN  /\ Succeeded(t, "construct")
                => \A n \in EventNames, T \in Types \ {"void"}, v \in Payloads :
                      evConstruct(t, n, T, v)
                      => /\ dataAs(callerEv'[t], T) = v
                         /\ isEqual(callerEv'[t], n)
                         /\ \A k \in EventNames \ {n} : ~isEqual(callerEv'[t], k)
           /\ Succeeded(t, "destroy")
                => \A T \in Types :
                      evDestroy(t, T)
                      => /\ isEmpty(callerEv'[t])
                         /\ ~callerEv'[t].nt
                         /\ (result[t] = Done("destroy") /\ isEmpty(callerEv[t]) /\ ~callerEv[t].nt)
                               => callerEv'[t] = callerEv[t]
      ]_vars

C23_Witness ==
    /\ result["t1"] = Done("destroy")
    /\ isEmpty(callerEv["t1"])
    /\ ~callerEv["t1"].nt
    /\ capacity(callerEv["t1"]) = SizeOf("token")
    /\ isEqual(callerEv["t2"], "Y")
    /\ callerEv["t2"].nt
    /\ dataAs(callerEv["t2"], "token") = MaxPayload

\* C24: after b = move(a), by move construction or by move assignment onto an event
\* with no live payload with a destructor, a is empty with zero capacity and a clear
\* flag, and b has the name, payload, capacity and flag a had; a move assignment of an
\* event to itself leaves it unchanged.
C24_Move ==
    [][LET t == "t1"
       IN  Succeeded(t, "move")
           => \A a, b \in Threads, how \in Moves :
                 evMove(t, a, b, how)
                 => IF b = a
                    THEN callerEv' = callerEv
                    ELSE /\ isEmpty(callerEv'[a])
                         /\ capacity(callerEv'[a]) = 0
                         /\ ~callerEv'[a].nt
                         /\ callerEv'[a] = EmptyEvent
                         /\ callerEv'[b] = callerEv[a]
      ]_vars

C24_Witness ==
    /\ result["t1"] = Done("move")
    /\ callerEv["t1"] = EmptyEvent
    /\ isEqual(callerEv["t2"], "X")
    /\ callerEv["t2"].nt
    /\ capacity(callerEv["t2"]) = SizeOf("token")

\* The capacity of the event of thread t after a construct of a payload of type T.
CapacityAfterConstruct(t, T) ==
    IF T = "void" \/ SizeOf(T) <= capacity(callerEv[t])
    THEN capacity(callerEv'[t]) = capacity(callerEv[t])
    ELSE capacity(callerEv'[t]) = SizeOf(T)

\* C25: across construct, destroy, reserve, being moved from and being move-assigned to,
\* the capacity of an Event never decreases; it decreases only through clear (or the
\* release of the Event). A construct whose payload fits leaves the capacity unchanged
\* and one whose payload does not fit raises it to the payload size.
C25_CapacityNeverDecreases ==
    [][LET t == "t1"
       IN  /\ \A x \in Threads :
                 capacity(callerEv'[x]) < capacity(callerEv[x])
                 => (x = t /\ (evClear(t) \/ evRelease(t)))
           /\ Succeeded(t, "construct")
                 => \A T \in Types : Constructs(t, T) => CapacityAfterConstruct(t, T)
      ]_vars

\* C25 as the code has it: construct, destroy and reserve never decrease the capacity;
\* it decreases through clear (and release), through being moved from, which leaves
\* capacity zero, and through being move-assigned to, which leaves the capacity of the
\* source. A construct whose payload fits leaves the capacity unchanged and one whose
\* payload does not fit raises it to the payload size.
C25_CapacityAmended ==
    [][LET t == "t1"
       IN  /\ \A x \in Threads :
                 capacity(callerEv'[x]) < capacity(callerEv[x])
                 => \/ x = t /\ (evClear(t) \/ evRelease(t))
                    \/ \E y \in Threads \ {x}, how \in Moves :
                          \/ evMove(t, x, y, how) /\ capacity(callerEv'[x]) = 0
                          \/ evMove(t, y, x, "assign") /\ capacity(callerEv'[x]) = capacity(callerEv[y])
           /\ Succeeded(t, "construct")
                 => \A T \in Types : Constructs(t, T) => CapacityAfterConstruct(t, T)
           /\ Succeeded(t, "reserve")
                 => \A size \in Sizes :
                       evReserve(t, size)
                       => capacity(callerEv'[t]) =
                             IF capacity(callerEv[t]) < size THEN size ELSE capacity(callerEv[t])
           /\ Succeeded(t, "destroy") => capacity(callerEv'[t]) = capacity(callerEv[t])
      ]_vars

C25_Witness ==
    /\ result["t1"] = Done("move")
    /\ capacity(callerEv["t1"]) = SizeOf("int")
    /\ isEqual(callerEv["t1"], "X")
    /\ capacity(callerEv["t2"]) = SizeOf("token")
    /\ isEmpty(callerEv["t2"])

\* C26: an Event needs an explicit destroy only while its name is non-empty, whatever
\* name was passed to construct, the empty name included; destroy, clear, a growing
\* reserve and being moved from clear the name and the flag together.
C26_NameEmptyIffNoLivePayload ==
    /\ [](\A x \in Threads : callerEv[x].nt => ~isEmpty(callerEv[x]))
    /\ [][LET t == "t1"
          IN  /\ (\/ Succeeded(t, "destroy")
                  \/ Succeeded(t, "clear")
                  \/ \E size \in Sizes :
                        Succeeded(t, "reserve") /\ size > capacity(callerEv[t]) /\ evReserve(t, size))
                 => (isEmpty(callerEv'[t]) /\ ~callerEv'[t].nt)
              /\ Succeeded(t, "move")
                 => \A a \in Threads, b \in Threads, how \in Moves :
                       (a # b /\ evMove(t, a, b, how))
                       => (isEmpty(callerEv'[a]) /\ ~callerEv'[a].nt)
         ]_vars

\* The other state of the ping-pong machine.
Other(h) == IF h = pingState THEN pongState ELSE pingState

\* The event a ping-pong state handles.
EventOf(h) == IF h = pingState THEN ToPingEvent ELSE ToPongEvent

\* The send call of thread t gave the state of the ping-pong machine its own event
\* with a counter n >= 0.
PingPongSend(t) ==
    /\ measure[t].to \in {pingState, pongState}
    /\ measure[t].name = EventOf(measure[t].to)
    /\ measure[t].sent >= 0

\* The counter of the event that thread t's chain is delivering or has delivered.
CounterInChain(t) ==
    IF pc[t] = "body" THEN dataAs(bodyEvent[cur[t]], "int")
    ELSE dataAs(_event[PingPongFSM], "int")

\* C27: sending ToPingEvent with counter n >= 0 to pingState (ToPongEvent to
\* pongState) routes and traces exactly n transitions, each from one state to the
\* other with the counter one less than before; then the receiving state yields empty
\* and send returns with current_state the state the event was sent to when n is even
\* and the other state when n is odd.
C27_PingPong ==
    /\ [](\A t \in Threads :
             PingPongSend(t)
             => LET n == measure[t].sent
                    k == measure[t].routed
                    here == IF k % 2 = 0 THEN measure[t].to ELSE Other(measure[t].to)
                IN  /\ pc[t] \in {"resume", "body"}
                          => (cur[t] = here /\ CounterInChain(t) = n - k /\ k <= n)
                    /\ pc[t] = "suspend"
                          => (cur[t] = here /\ IF k < n
                                               THEN /\ CounterInChain(t) = n - k - 1
                                                    /\ isEqual(_event[PingPongFSM], EventOf(Other(here)))
                                               ELSE isEmpty(_event[PingPongFSM]))
                    /\ pc[t] = "done"
                          => /\ result[t] = Returned("emptyYield")
                             /\ k = n
                             /\ _state[PingPongFSM] = here
                             /\ currentState(PingPongFSM) =
                                   getName(IF n % 2 = 0 THEN measure[t].to ELSE Other(measure[t].to)))
    /\ [][\A t \in Threads :
            (PingPongSend(t) /\ ~isEmpty(_event[PingPongFSM]) /\ await_suspend(t))
            => /\ measure'[t].routed = measure[t].routed + 1
               /\ cur'[t] = Other(cur[t])
               /\ lastLog' = [fsm |-> fsmName(PingPongFSM), from |-> getName(cur[t]),
                               ev |-> _event[PingPongFSM].name, to |-> getName(Other(cur[t]))]
         ]_vars

C27_Witness ==
    /\ pc["t1"] = "done"
    /\ result["t1"] = Returned("emptyYield")
    /\ measure["t1"] = [name |-> ToPingEvent, sent |-> 2, to |-> pingState, routed |-> 2]
    /\ currentState(PingPongFSM) = "pingState"
    /\ lastLog = [fsm |-> "PingPongFSM", from |-> "pongState", ev |-> ToPingEvent, to |-> "pingState"]

\* The send call of thread t gave StartEvent with a round count K >= 1 to 'ready'.
RingSend(t) ==
    /\ measure[t].to = ready
    /\ measure[t].name = StartEvent
    /\ measure[t].sent >= 1

\* The send call of thread t has returned after the controller yielded empty.
ControllerYieldedEmpty(t) ==
    /\ pc[t] = "done"
    /\ result[t] = Returned("emptyYield")
    /\ pos[ready] = yieldedPos

\* C28: with N ring states wired in a cycle through 'ready', sending StartEvent with
\* round count K >= 1 to 'ready' results in exactly K*N transitions before the
\* controller yields empty, and send returns with current_state = 'ready'.
C28_RingTransitions ==
    \A t \in Threads :
        (RingSend(t) /\ ControllerYieldedEmpty(t))
        => /\ measure[t].routed = measure[t].sent * statesInRing
           /\ currentState(RingFSM) = getName(ready)

\* C28 as the code has it: a round is a cycle through the N ring states and back to
\* 'ready', N + 1 transitions, so K rounds result in exactly K*(N + 1) transitions
\* before the controller yields empty; the chain ends only by that yield, and send
\* returns with current_state = 'ready'.
C28_RingTransitionsAmended ==
    \A t \in Threads :
        RingSend(t)
        => /\ measure[t].routed <= measure[t].sent * (statesInRing + 1)
           /\ pc[t] = "done"
                 => /\ ControllerYieldedEmpty(t)
                    /\ measure[t].routed = measure[t].sent * (statesInRing + 1)
                    /\ roundsLeft = 0
                    /\ currentState(RingFSM) = getName(ready)

C28_Witness ==
    /\ ControllerYieldedEmpty("t1")
    /\ measure["t1"].to = ready
    /\ measure["t1"].name = StartEvent
    /\ measure["t1"].sent = MaxRounds
    /\ measure["t1"].routed = MaxRounds * (statesInRing + 1)
    /\ numEventsProcessed = MaxRounds * statesInRing
    /\ currentState(RingFSM) = "ready"

\* C29: hand-off is stack-bounded. A same-machine or cross-machine hand-off retains
\* no frame for the yielding body while the destination runs: under one send call the
\* resumed state bodies are nested one deep, the one frame being that of the state
\* that runs, however many hops the chain has made; no frame is left when send returns.
C29_StackBounded ==
    \A t \in Threads :
        /\ Len(stack[t]) <= 1
        /\ InChain(t) => stack[t] = << cur[t] >>
        /\ ~InChain(t) => stack[t] = << >>

\* The chain has gone round r1 -> r2 -> g1 -> r1, by a same-machine and two
\* cross-machine hand-offs: g1 has handed off to r1, which yielded before and is
\* resumed again, and r1's is the only frame.
C29_Witness ==
    /\ pc["t1"] = "resume"
    /\ cur["t1"] = "r1"
    /\ hop["t1"].from = "g1"
    /\ pos["r1"] = yieldedPos
    /\ pos["r2"] = yieldedPos
    /\ driven["t1"] = "R"
    /\ stack["t1"] = << "r1" >>

\* The event given to the send call of thread t is on its way to the body of the
\* state it was sent to: no transition has been routed in the call yet.
Delivering(t) ==
    /\ pc[t] \in {"resume", "body"}
    /\ measure[t].to # NullH
    /\ measure[t].routed = 0

\* C30: send(event) hands the event to current_state's body directly. No
\* transition-table lookup is made for the sent event: the coroutine resumed is the
\* one current_state names, whether or not the table has an entry for
\* (current_state, event.name), and its body receives the event as it was sent. The
\* trace callback is not invoked for the delivery, and current_state is not changed
\* by it.
C30_SendDeliversDirectly ==
    /\ [][\A t \in Threads :
            (pc[t] \in {"idle", "ready"} /\ pc'[t] = "resume")
            => /\ cur'[t] = _state[driven'[t]]
               /\ _state' = _state
               /\ _event'[driven'[t]].name = callerEv[t].name
               /\ _event'[driven'[t]].data = callerEv[t].data]_vars
    /\ [][\A t \in Threads :
            (Delivering(t) /\ pc[t] = "resume" /\ pc'[t] = "body")
            => /\ cur'[t] = measure[t].to
               /\ _state' = _state
               /\ bodyEvent'[cur[t]].name = measure[t].name
               /\ bodyEvent'[cur[t]].data = measure[t].sent]_vars
    /\ [](\A t \in Threads :
            Delivering(t)
            => /\ cur[t] = measure[t].to
               /\ _state[driven[t]] = measure[t].to
               /\ lastLog = NoLog)

\* ToPingEvent was sent to pingState, for which the table has no entry, with the
\* trace callback attached: the body of pingState holds the event, nothing has been
\* logged and the current state is pingState.
C30_Witness ==
    /\ pc["t1"] = "body"
    /\ Delivering("t1")
    /\ cur["t1"] = pingState
    /\ bodyEvent[pingState].name = ToPingEvent
    /\ targetOf(PingPongFSM, pingState, ToPingEvent) = NoTarget
    /\ logger[PingPongFSM]
    /\ lastLog = NoLog
    /\ _state[PingPongFSM] = pingState

\* Thread t takes the step of the body it runs.
BodyStep(t) == << pc[t], fault >>' # << pc[t], fault >>

\* C31: every idle state of the RGB machines honours the explicit-destroy contract
\* when it receives a HandOverEvent carrying a stop token: the payload is destroyed
\* with its type before the event is re-constructed as StartBlinkEvent, in
\* blueIdleState exactly as in greenIdleState, so the body yields StartBlinkEvent and
\* a red -> green -> blue -> red cycle of hand-overs meets no fatal error.
C31_IdleStatesDestroyPayload ==
    /\ [][\A t \in RGBThreads, h \in IdleStates :
            ( /\ pc[t] = "body"
              /\ cur[t] = h
              /\ isEqual(bodyEvent[h], HandOverEvent)
              /\ bodyEvent[h].nt
              /\ BodyStep(t) )
            => /\ fault' = "none"
               /\ pc'[t] = "suspend"
               /\ isEqual(_event'[fsmOf(h)], StartBlinkEvent)
               /\ stopToken'[h] = bodyEvent[h].data]_vars
    /\ [](fault # "terminate")

\* Thread t is executing a dispatch chain.
Driving(t) == pc[t] \in {"resume", "body", "suspend", "handover"}

StopRequested(t) == jthread[t] = "stopRequested" /\ measure[t].to # NullH

\* The machine whose body thread t resumes, runs or has just suspended holds the
\* thread's stop token: in the local stop_token of its idle state, or as the payload
\* of the HandOverEvent that its idle state has received or is about to receive.
HoldsToken(t) ==
    LET m == fsmOf(cur[t])
        idle == CHOOSE h \in IdleStates : fsmOf(h) = m
        carried(e) == isEqual(e, HandOverEvent) /\ dataAs(e, "token") = phaseOf(t)
    IN  \/ stopToken[idle] = phaseOf(t)
        \/ carried(_event[m])
        \/ carried(bodyEvent[idle])

\* The most transitions a chain routes after stop was requested: a hand-over already
\* yielded, then one blink (to the active state and back).
MaxAfterStop == 3

\* C33: cooperative cancellation in the RGB machines. Once stop has been requested on
\* the token carried by the HandOverEvent, the running chain ends after a bounded
\* number of further transitions, and it ends because an idle state yields an empty
\* event at its next BlinkReadyEvent; the token is carried along by every hand-over,
\* so the machine that is running always holds it.
C33_CooperativeCancellation ==
    \A t \in RGBThreads :
        /\ pc[t] \in {"resume", "body", "suspend"} => HoldsToken(t)
        /\ StopRequested(t)
           => /\ fault = "none"
              /\ measure[t].routed - routedAtStop[t] <= MaxAfterStop
              /\ pc[t] = "done"
                    => /\ result[t] = Returned("emptyYield")
                       /\ \E h \in IdleStates :
                            /\ _state[fsmOf(h)] = h
                            /\ stopToken[h] = phaseOf(t)
                            /\ isEqual(bodyEvent[h], "")

\* The speed clamped into [1, 1200].
ClampedSpeed(w) == IF w < 1 THEN 1 ELSE IF w > 1200 THEN 1200 ELSE w

\* C34: in the Morse machine the dot duration is 1200 / w milliseconds, where w is
\* the words-per-minute argument clamped into [1, 1200], and the dash duration is
\* three times the dot duration; for 12 words per minute the dot lasts 100 ms and the
\* dash 300 ms. The durations are computed for every speed.
C34_DotAndDash ==
    /\ fault = "none"
    /\ dotTimeInMs # NoData
          => /\ dotTimeInMs = 1200 \div ClampedSpeed(speedWordsPerMinute)
             /\ dashTimeInMs = 3 * dotTimeInMs
             /\ speedWordsPerMinute = 12 => (dotTimeInMs = 100 /\ dashTimeInMs = 300)

\* C35: send on a machine whose current state has never been set, also after
\* start(), ends with the 'not started' error instead of resuming a body, and the
\* machine and the caller's event are left as they were.
C35_SendWithoutCurrentState ==
    [][\A t \in Threads, m \in FSMs :
         (sendEvent(t, m) /\ _state[m] = NullH)
         => /\ pc'[t] = "done"
            /\ result'[t].kind = "error"
            /\ result'[t].what = "notStarted"
            /\ fault' = "none"
            /\ pos' = pos /\ bIsStarted' = bIsStarted /\ bodyEvent' = bodyEvent
            /\ _event' = _event /\ _state' = _state /\ _bIsActive' = _bIsActive
            /\ callerEv' = callerEv
      ]_vars

\* C36: set_state(name) with a name that is not registered in the machine fails
\* with an error and leaves the current state as it was before the call, so a later
\* send still goes to the previously current state.
C36_SetStateUnknownName ==
    [][\A t \in Threads, m \in FSMs, h \in Handles :
         (setState(t, m, getName(h)) /\ ~hasState(m, getName(h)))
         => /\ pc'[t] = "done"
            /\ result'[t] = Error("unknownState", fsmName(m), getName(h), "")
            /\ _state'[m] = _state[m]
      ]_vars

\* C37: after send(event) has returned normally the caller's Event is empty: empty
\* name, zero capacity, no payload and no pending explicit destroy, the buffer having
\* moved into the machine; so the caller constructs its next event in the same
\* object without a destroy, here after a std::string payload, and that construct
\* does not fail.
C37_CallerEventEmptyAfterSend ==
    /\ [](\A t \in DOMAIN pc :
            (pc[t] = "done" /\ result[t].kind = "returned")
            => /\ isEmpty(callerEv[t])
               /\ capacity(callerEv[t]) = 0
               /\ callerEv[t].data = NoData
               /\ ~callerEv[t].nt)
    /\ [][\A t \in DOMAIN pc :
            (mainConstruct(t) /\ sent > 0)
            => /\ fault' = "none"
               /\ pc'[t] = "ready"
               /\ callerEv'[t].nt
               /\ sent' = sent + 1
         ]_vars

\* The second message was constructed in the Event that carried the first, and its
\* send has returned after the machine took the message.
C37_Witness ==
    /\ pc["t1"] = "done"
    /\ result["t1"] = Returned("emptyYield")
    /\ sent = 2
    /\ Len(message) = MaxMessageLen
    /\ symbolsSent = Len(message)

\* C38: while a state body of machine M runs in a chain, and when it has yielded,
\* M's current state is that state, so the table lookup keyed by the yielding state
\* is the lookup keyed by the current state; this holds for the state a send
\* resumes, for a target in the same machine and for a target in another machine.
\* States are registered in the machine they were created for and setState is not
\* called during a chain.
C38_CurrentStateIsRunningState ==
    \A t \in {"t1"} :
        pc[t] \in {"body", "suspend"}
        => /\ cur[t] \in Registered(fsmOf(cur[t]))
           /\ _state[fsmOf(cur[t])] = cur[t]
           /\ pc[t] = "suspend"
                => \A n \in Names \cup {""} :
                       targetOf(fsmOf(cur[t]), cur[t], n)
                       = targetOf(fsmOf(cur[t]), _state[fsmOf(cur[t])], n)

\* g1 has yielded a non-empty event in a chain that the caller started on R and that
\* entered G by the hand-over from r2.
C38_Witness ==
    /\ pc["t1"] = "suspend"
    /\ cur["t1"] = "g1"
    /\ driven["t1"] = "R"
    /\ _state["R"] = "r2"
    /\ ~isEmpty(_event["G"])

\* C39: every non-empty event routed to a destination state is received by that
\* state's body before send returns, also when the destination has not been started
\* (registered after start(), or owned by a machine whose start() was not called):
\* the resumption that follows the routing gives the event to the body and empties
\* the in-flight slot, and the chain does not end there.
C39_RoutedEventIsDelivered ==
    [][\A t \in {"t1"} :
         (pc[t] = "resume" /\ hop[t] # NoHop /\ resume(t))
         => /\ pc'[t] = "body"
            /\ bodyEvent'[cur[t]] = hop[t].ev
            /\ isEmpty(_event'[fsmOf(cur[t])])
      ]_vars

\* C40: after a send that was aborted by an error raised during the chain (no
\* transition for a yielded event, or an empty event delivered to a state), the
\* machine the send was called on and the machine in which the error was raised
\* report isActive() false, as they do after a chain that ended with an empty yield.
C40_InactiveAfterAbort ==
    \A t \in {"t1"} :
        (pc[t] = "done" /\ result[t].kind = "error"
                        /\ result[t].what \in {"noTransition", "emptyEvent"})
        => /\ ~_bIsActive[driven[t]]
           /\ ~_bIsActive[result[t].fsm]

====
